---- MODULE Spec2Model ----
(***************************************************************************)
(* A model of the analyze-transaction route of SolanaLens-AI               *)
(* (app/api/analyze-transaction/route.ts): the POST handler, the           *)
(* transaction transformer it calls, the market-data helpers with their    *)
(* module-level token cache, and the text-generation fallbacks.            *)
(*                                                                         *)
(* Representation.  A JavaScript string the code inspects or formats       *)
(* (a signature, an amount) is a sequence of one-character strings; a      *)
(* label the code only copies or compares (an address, a symbol) is a      *)
(* TLA+ string.  A JavaScript number that holds a decimal quantity is a    *)
(* record [m, e] standing for m / 10^e, computed exactly; toFixed rounds   *)
(* half away from zero on that exact value.                                *)
(***************************************************************************)
EXTENDS Integers, Sequences, FiniteSets, TLC

VARIABLES
    ACTIVE_LLM,            \* LLM_CONFIG.ACTIVE_LLM
    API_KEYS,              \* LLM_CONFIG.API_KEYS: provider -> key configured
    JUPITER_TOKENS_CACHE,  \* module-level token cache: mint -> JupiterToken
    CACHE_LOADED,          \* module-level flag of loadJupiterTokens
    rq,                    \* per request: the locals of POST and transformTransaction
    tutor,                 \* the tutor route: the locals of its POST
    explainer,             \* the explainer page: its React state and requests
    tutorPage              \* the tutor page: its React state and requests

vars == <<ACTIVE_LLM, API_KEYS, JUPITER_TOKENS_CACHE, CACHE_LOADED, rq, tutor,
          explainer, tutorPage>>

\* what the routes run on
server == <<ACTIVE_LLM, API_KEYS, JUPITER_TOKENS_CACHE, CACHE_LOADED, rq, tutor>>

----------------------------------------------------------------------------
(* Characters and strings                                                  *)

DigitSeq == <<"0", "1", "2", "3", "4", "5", "6", "7", "8", "9">>

DigitChars == {DigitSeq[i] : i \in 1..10}

DigitValue(c) == (CHOOSE i \in 1..10 : DigitSeq[i] = c) - 1

WhitespaceChars == {" ", "\t", "\n"}

\* the character class of base58Regex: [1-9A-HJ-NP-Za-km-z]
Base58Chars ==
    {"1", "2", "3", "4", "5", "6", "7", "8", "9",
     "A", "B", "C", "D", "E", "F", "G", "H", "J", "K", "L", "M", "N",
     "P", "Q", "R", "S", "T", "U", "V", "W", "X", "Y", "Z",
     "a", "b", "c", "d", "e", "f", "g", "h", "i", "j", "k",
     "m", "n", "o", "p", "q", "r", "s", "t", "u", "v", "w", "x", "y", "z"}

Rep(c, n) == [i \in 1..n |-> c]

RECURSIVE TrimStart(_)
TrimStart(s) ==
    IF s # <<>> /\ Head(s) \in WhitespaceChars THEN TrimStart(Tail(s)) ELSE s

RECURSIVE TrimEnd(_)
TrimEnd(s) ==
    IF s # <<>> /\ s[Len(s)] \in WhitespaceChars
    THEN TrimEnd(SubSeq(s, 1, Len(s) - 1))
    ELSE s

\* String.prototype.trim
Trim(s) == TrimEnd(TrimStart(s))

Pow10(n) == IF n = 0 THEN 1 ELSE
            IF n = 1 THEN 10 ELSE
            IF n = 2 THEN 100 ELSE
            IF n = 3 THEN 1000 ELSE
            IF n = 4 THEN 10000 ELSE
            IF n = 5 THEN 100000 ELSE
            IF n = 6 THEN 1000000 ELSE
            IF n = 7 THEN 10000000 ELSE
            IF n = 8 THEN 100000000 ELSE 1000000000

Abs(x) == IF x < 0 THEN -x ELSE x

RECURSIVE Gcd(_, _)
Gcd(a, b) == IF b = 0 THEN a ELSE Gcd(b, a % b)

\* the decimal digits of a natural number, most significant first
RECURSIVE Digits(_)
Digits(n) ==
    IF n < 10 THEN <<DigitSeq[n + 1]>>
    ELSE Digits(n \div 10) \o <<DigitSeq[(n % 10) + 1]>>

\* n written with exactly k digits, zero-padded on the left (n < 10^k)
PadDigits(n, k) == Rep("0", k - Len(Digits(n))) \o Digits(n)

----------------------------------------------------------------------------
(* Decimal numbers and Number.prototype.toFixed                            *)

Dec(m, e) == [m |-> m, e |-> e]

DecMul(a, b) == Dec(a.m * b.m, a.e + b.e)

DecAbs(a) == Dec(Abs(a.m), a.e)

\* the digits of a non-negative integer n of units 10^-k, as "i.ffff"
FixedDigits(n, k) ==
    IF k = 0 THEN Digits(n)
    ELSE Digits(n \div Pow10(k)) \o <<".">> \o PadDigits(n % Pow10(k), k)

\* the integer nearest to num/den (num >= 0, den > 0), ties upwards
RoundDiv(num, den) == (2 * num + den) \div (2 * den)

\* x.toFixed(k) for x = a.m / 10^a.e
ToFixed(a, k) ==
    LET mag == Abs(a.m)
        n   == IF k >= a.e THEN mag * Pow10(k - a.e)
               ELSE RoundDiv(mag, Pow10(a.e - k))
    IN  (IF a.m < 0 THEN <<"-">> ELSE <<>>) \o FixedDigits(n, k)

\* x.toFixed(k) for the rational x = num / den (den > 0)
ToFixedRat(num, den, k) ==
    LET g == Gcd(Abs(num), den)
        n == RoundDiv((Abs(num) \div g) * Pow10(k), den \div g)
    IN  (IF num < 0 THEN <<"-">> ELSE <<>>) \o FixedDigits(n, k)

\* the value of a digit string
RECURSIVE DigitsValue(_)
DigitsValue(s) ==
    IF s = <<>> THEN 0
    ELSE 10 * DigitsValue(SubSeq(s, 1, Len(s) - 1)) + DigitValue(s[Len(s)])

\* parseFloat on a string of the form digits "." digits
ParseFloat(s) ==
    LET dot == CHOOSE i \in 1..Len(s) : s[i] = "."
        ds  == SubSeq(s, 1, dot - 1) \o SubSeq(s, dot + 1, Len(s))
    IN  Dec(DigitsValue(ds), Len(s) - dot)

----------------------------------------------------------------------------
(* JavaScript values of a request body                                     *)

JsUndefined == [t |-> "undefined", n |-> 0, s |-> <<>>]
JsNull      == [t |-> "null", n |-> 0, s |-> <<>>]
JsNumber(n) == [t |-> "number", n |-> n, s |-> <<>>]
JsBoolean(b) == [t |-> "boolean", n |-> IF b THEN 1 ELSE 0, s |-> <<>>]
JsObject    == [t |-> "object", n |-> 0, s |-> <<>>]
JsString(s) == [t |-> "string", n |-> 0, s |-> s]

\* ToBoolean: what `!v` negates
Truthy(v) ==
    CASE v.t \in {"undefined", "null"} -> FALSE
      [] v.t \in {"number", "boolean"} -> v.n # 0
      [] v.t = "string" -> v.s # <<>>
      [] OTHER -> TRUE

----------------------------------------------------------------------------
(* Signature validation                                                    *)

MinSigLen == 87
MaxSigLen == 88

isValidBase58(str) ==
    str # <<>> /\ \A i \in 1..Len(str) : str[i] \in Base58Chars

isValidSolanaSignature(signature) ==
    IF ~Truthy(signature) \/ signature.t # "string" THEN FALSE
    ELSE LET trimmedSignature == Trim(signature.s)
         IN  IF Len(trimmedSignature) < MinSigLen
                \/ Len(trimmedSignature) > MaxSigLen
             THEN FALSE
             ELSE isValidBase58(trimmedSignature)

----------------------------------------------------------------------------
(* Configuration                                                           *)

Providers == {"groq", "gemini", "openai", "deepseek"}

activeKey_KnownProvider(llm, keys) == llm \in DOMAIN keys

\* LLM_CONFIG.API_KEYS[LLM_CONFIG.ACTIVE_LLM], as the truth value of `activeKey`
activeKey(llm, keys) == llm \in DOMAIN keys /\ keys[llm]

----------------------------------------------------------------------------
(* Program table, classification, steps, fallbacks                         *)

SYSTEM_PROGRAM == "11111111111111111111111111111111"
COMPUTE_BUDGET == "ComputeBudget111111111111111111111111111111"
TOKEN_PROGRAM  == "TokenkegQfeZyiNwAJbNbGKPFXCWuBvf9Ss623VQ5DA"
JUPITER_V4     == "JUP4Fb2cqiRUcaTHdrPC8h2gNsA2ETXiPDD33WcGuJB"
JUPITER_V6     == "JUP6LkbZbjS1jKKwapdHNy74zcZ3tLUZoi5QNyVTaV4"
STAKE_PROGRAM  == "Stake11111111111111111111111111111111111111"
VOTE_PROGRAM   == "Vote111111111111111111111111111111111111111"
OTHER_PROGRAM  == "MemoSq4gqABAXKb96qnH8TysNcWxMyWCqXgDLGmfcHr"

\* the entries of PROGRAM_INFO for the programs of the model
PROGRAM_INFO ==
    SYSTEM_PROGRAM :> "System Program"
    @@ COMPUTE_BUDGET :> "Compute Budget Program"
    @@ TOKEN_PROGRAM :> "Token Program"
    @@ JUPITER_V4 :> "Jupiter Aggregator v4"
    @@ JUPITER_V6 :> "Jupiter Aggregator v6"
    @@ STAKE_PROGRAM :> "Stake Program"
    @@ VOTE_PROGRAM :> "Vote Program"

Includes(seq, x) == \E i \in 1..Len(seq) : seq[i] = x

determineTransactionType_TokenFirst(programs) ==
    IF Includes(programs, TOKEN_PROGRAM) THEN "Token Transfer"
    ELSE IF Includes(programs, JUPITER_V4) \/ Includes(programs, JUPITER_V6)
         THEN "Token Swap"
    ELSE IF Includes(programs, STAKE_PROGRAM) THEN "Stake"
    ELSE IF Includes(programs, VOTE_PROGRAM) THEN "Vote"
    ELSE IF Includes(programs, SYSTEM_PROGRAM) THEN "SOL Transfer"
    ELSE "Unknown"

determineTransactionType(programs) ==
    IF Includes(programs, JUPITER_V4) \/ Includes(programs, JUPITER_V6)
    THEN "Token Swap"
    ELSE IF Includes(programs, TOKEN_PROGRAM) THEN "Token Transfer"
    ELSE IF Includes(programs, STAKE_PROGRAM) THEN "Stake"
    ELSE IF Includes(programs, VOTE_PROGRAM) THEN "Vote"
    ELSE IF Includes(programs, SYSTEM_PROGRAM) THEN "SOL Transfer"
    ELSE "Unknown"

generateBasicSteps_DefaultForTransfer(type) ==
    IF type = "Token Swap"
    THEN <<"Initialize Swap", "Token Account Check", "Route Calculation",
           "Execute Swap">>
    ELSE <<"Initialize Transaction", "Process Instructions",
           "Confirm Transaction">>

generateBasicSteps(type) ==
    IF type = "Token Swap"
    THEN <<"Initialize Swap", "Token Account Check", "Route Calculation",
           "Execute Swap">>
    ELSE IF type = "Token Transfer"
    THEN <<"Initialize Transfer", "Verify Accounts", "Execute Transfer">>
    ELSE <<"Initialize Transaction", "Process Instructions",
           "Confirm Transaction">>

FALLBACK_EXPLANATIONS ==
    "Token Swap" :> [beginner |-> "This transaction was a token swap on Solana! Think of it like exchanging money at a currency exchange booth. Someone traded their tokens through a decentralized exchange, which automatically found the best price across multiple trading pools. The whole process took just a few seconds and cost less than a penny in fees!",
        developer |-> "This transaction executed a swap instruction through Jupiter's aggregator program. The transaction involved multiple program invocations including Token Program calls for account transfers, associated token account creation, and price oracle queries. The swap utilized a multi-hop route through various AMMs to optimize for minimal slippage and best execution price."]
    @@
    "Token Transfer" :> [beginner |-> "This was a simple token transfer on Solana - like sending a digital payment to someone. The tokens moved directly from one wallet to another, secured by Solana's blockchain. The transaction was fast and cheap!",
        developer |-> "This transaction executed a direct SPL token transfer using the Token Program. The instruction included account validation, balance checks, and atomic transfer execution with proper authority verification."]
    @@
    "SOL Transfer" :> [beginner |-> "This was a SOL transfer - Solana's native cryptocurrency moving from one wallet to another. It's like sending digital cash instantly and securely!",
        developer |-> "This transaction executed a native SOL transfer using the System Program with proper signature verification and balance checks."]
    @@
    "Stake" :> [beginner |-> "This transaction staked SOL tokens! Staking is like putting your money in a savings account - you lock up your SOL to help secure the network and earn rewards over time.",
        developer |-> "This transaction created or modified a stake account, delegating SOL to a validator for network security and rewards."]
    @@
    "Unknown" :> [beginner |-> "This transaction performed an operation on the Solana blockchain. Transactions on Solana are fast, cheap, and secure!",
        developer |-> "This transaction executed program instructions on Solana with atomic execution guarantees."]

\* FALLBACK_EXPLANATIONS[txType]?.beginner || FALLBACK_EXPLANATIONS["Unknown"]!.beginner
FallbackBeginner(txType) ==
    IF txType \in DOMAIN FALLBACK_EXPLANATIONS
    THEN FALLBACK_EXPLANATIONS[txType].beginner
    ELSE FALLBACK_EXPLANATIONS["Unknown"].beginner

FallbackDeveloper(txType) ==
    IF txType \in DOMAIN FALLBACK_EXPLANATIONS
    THEN FALLBACK_EXPLANATIONS[txType].developer
    ELSE FALLBACK_EXPLANATIONS["Unknown"].developer

----------------------------------------------------------------------------
(* The ledger record (ParsedTransactionWithMeta) and the market data       *)

Absent == ""          \* a missing / undefined address or optional field
NoFee  == -1          \* meta.fee is undefined

\* pubkeyToBase58: an address stands for the key and for its base58 form
pubkeyToBase58(acc) == IF acc = Absent THEN "" ELSE acc

\* accountKeys[index] with a 0-based index; undefined when out of range
KeyAt(accountKeys, index) ==
    IF index + 1 \in 1..Len(accountKeys) THEN accountKeys[index + 1] ELSE Absent

\* a token balance entry; amount is uiTokenAmount.amount, a digit string
Balance(accountIndex, mint, owner, amount, decimals) ==
    [accountIndex |-> accountIndex, mint |-> mint, owner |-> owner,
     amount |-> amount, decimals |-> decimals]

\* BigInt(s) for a digit string
BigInt(s) == DigitsValue(s)

\* a price: NoPrice when the field is missing
NoPrice == Dec(-1, 0)

\* a JupiterToken
JupiterToken(id, symbol, decimals, usdPrice) ==
    [id |-> id, symbol |-> symbol, name |-> symbol, icon |-> "icon",
     decimals |-> decimals, usdPrice |-> usdPrice]

\* a JupiterPriceEntry, or NoEntry for priceData[mint] undefined
PriceEntry(usdPrice, decimals) ==
    [present |-> TRUE, usdPrice |-> usdPrice, decimals |-> decimals]

NoEntry == [present |-> FALSE, usdPrice |-> NoPrice, decimals |-> 0]

SOL_PRICE_FALLBACK == 200

DEFAULT_DECIMALS == 9

LAMPORTS_EXP == 9

lamportsToSol_Milli(lamports) == Dec(lamports, 6)

\* lamports / 1e9
lamportsToSol(lamports) == Dec(lamports, LAMPORTS_EXP)

fetchSolPrice_ZeroOnFailure(outcome) ==
    IF outcome.kind = "price" THEN outcome.usdPrice ELSE Dec(0, 0)

\* fetchSolPrice, given how the price request ended: "fail" (fetch rejects),
\* "malformed" (response.json() rejects) and "nullbody" (indexing null throws)
\* reach the catch; "noentry" and "noprice" leave the ?? operand nullish;
\* "price" is an entry with a usdPrice
fetchSolPrice(outcome) ==
    IF outcome.kind = "price" THEN outcome.usdPrice
    ELSE Dec(SOL_PRICE_FALLBACK, 0)

\* lamportsToSol(meta.fee ?? 0)
solFeeOf(tx) == lamportsToSol(IF tx.fee = NoFee THEN 0 ELSE tx.fee)

\* (solFee * solPriceUsd).toFixed(4)
usdFeeOf(tx, solPriceUsd) == ToFixed(DecMul(solFeeOf(tx), solPriceUsd), 4)

ethFeeAvg == Dec(75, 1)

savingsOf_Ratio(usdFee) ==
    LET u == ParseFloat(usdFee)
    IN  ToFixedRat(u.m * Pow10(ethFeeAvg.e) * 100, ethFeeAvg.m * Pow10(u.e), 2)

\* ((1 - parseFloat(usdFee) / ethFeeAvg) * 100).toFixed(2)
savingsOf(usdFee) ==
    LET u   == ParseFloat(usdFee)
        den == ethFeeAvg.m * Pow10(u.e)
        num == (den - u.m * Pow10(ethFeeAvg.e)) * 100
    IN  ToFixedRat(num, den, 2)

\* uniqueMints, in insertion order
RECURSIVE Distinct(_)
Distinct(seq) ==
    IF seq = <<>> THEN <<>>
    ELSE LET rest == Distinct(SubSeq(seq, 1, Len(seq) - 1))
             last == seq[Len(seq)]
         IN  IF Includes(rest, last) THEN rest ELSE Append(rest, last)

uniqueMints_FirstOnly(tx) ==
    IF tx.post = <<>> THEN <<>> ELSE <<tx.post[1].mint>>

uniqueMints(tx) == Distinct([j \in 1..Len(tx.post) |-> tx.post[j].mint])

\* preTokenBalances.find(p => p.accountIndex === post.accountIndex && p.mint === post.mint):
\* the position of the first match, 0 when there is none
FindPre(tx, post) ==
    LET hits == {k \in 1..Len(tx.pre) :
                    /\ tx.pre[k].accountIndex = post.accountIndex
                    /\ tx.pre[k].mint = post.mint}
    IN  IF hits = {} THEN 0 ELSE CHOOSE k \in hits : \A h \in hits : k <= h

\* postAmount - preAmount of the j-th post entry (which has a pre entry)
ChangeOf(tx, j) ==
    BigInt(tx.post[j].amount) - BigInt(tx.pre[FindPre(tx, tx.post[j])].amount)

ReachesTokenInfo_KeepsZero(tx, j) == FindPre(tx, tx.post[j]) # 0

\* the loop body goes on to getTokenInfo for the j-th post entry
ReachesTokenInfo(tx, j) ==
    /\ FindPre(tx, tx.post[j]) # 0
    /\ ChangeOf(tx, j) # 0

\* the first post entry at or after i for which the loop awaits getTokenInfo,
\* Len + 1 when the loop ends
NextDelta(tx, i) ==
    LET js == {j \in i..Len(tx.post) : ReachesTokenInfo(tx, j)}
    IN  IF js = {} THEN Len(tx.post) + 1
        ELSE CHOOSE j \in js : \A h \in js : j <= h

\* the programIds set of transformTransaction, in insertion order
programIdsOf(tx) ==
    LET ids == [k \in 1..Len(tx.instructions) |->
                  pubkeyToBase58(
                    IF tx.instructions[k].programId # Absent
                    THEN tx.instructions[k].programId
                    ELSE KeyAt(tx.accountKeys, tx.instructions[k].programIdIndex))]
    IN  Distinct(SelectSeq(ids, LAMBDA id : id # ""))

\* PROGRAM_INFO[id]?.name || fallback
ProgramName(id, fallback) ==
    IF id \in DOMAIN PROGRAM_INFO THEN PROGRAM_INFO[id] ELSE fallback

----------------------------------------------------------------------------
(* getTokenInfo: the three TokenData values it can return                  *)

TokenData(symbol, name, image, price, decimals) ==
    [symbol |-> symbol, name |-> name, image |-> image, price |-> price,
     decimals |-> decimals]

\* priceData?.usdPrice ?? token.usdPrice ?? 0
PriceOr(priceData, usdPrice) ==
    IF priceData.present /\ priceData.usdPrice # NoPrice THEN priceData.usdPrice
    ELSE IF usdPrice # NoPrice THEN usdPrice
    ELSE Dec(0, 0)

TokenInfoFrom_CachedPrice(token, priceData) ==
    TokenData(token.symbol, token.name, token.icon,
              PriceOr(NoEntry, token.usdPrice), token.decimals)

\* the value returned for a token found in the cache or by the search
TokenInfoFrom(token, priceData) ==
    TokenData(token.symbol, token.name, token.icon,
              PriceOr(priceData, token.usdPrice), token.decimals)

TokenInfoSynthetic_ZeroPrice(mint, priceData) ==
    TokenData(mint, mint, "", Dec(0, 0),
              IF priceData.present THEN priceData.decimals ELSE DEFAULT_DECIMALS)

TokenInfoSynthetic_RawPrice(mint, priceData) ==
    TokenData(mint, mint, "", priceData.usdPrice,
              IF priceData.present THEN priceData.decimals ELSE DEFAULT_DECIMALS)

\* the value returned when both lookups fail
TokenInfoSynthetic(mint, priceData) ==
    TokenData(mint, mint, "", PriceOr(priceData, NoPrice),
              IF priceData.present THEN priceData.decimals ELSE DEFAULT_DECIMALS)

\* searchResults.find(t => t.id === mint): the position of the match, 0 if none
ExactMatch(searchResults, mint) ==
    LET hits == {k \in 1..Len(searchResults) : searchResults[k].id = mint}
    IN  IF hits = {} THEN 0 ELSE CHOOSE k \in hits : \A h \in hits : k <= h

\* tokens.forEach(token => { JUPITER_TOKENS_CACHE[token.id] = token })
RECURSIVE CacheAll(_, _)
CacheAll(cache, tokens) ==
    IF tokens = <<>> THEN cache
    ELSE CacheAll([m \in DOMAIN cache \cup {Head(tokens).id} |->
                      IF m = Head(tokens).id THEN Head(tokens) ELSE cache[m]],
                  Tail(tokens))

CachePut(cache, mint, token) ==
    [m \in DOMAIN cache \cup {mint} |-> IF m = mint THEN token ELSE cache[m]]

----------------------------------------------------------------------------
(* The records transformTransaction builds for one balance delta           *)

POOL_ACCOUNT == "Pool Account"

\* post.owner || (accountKeys[post.accountIndex] ? pubkeyToBase58(...) : "")
ownerAddressOf(tx, post) ==
    IF post.owner # Absent THEN post.owner
    ELSE pubkeyToBase58(KeyAt(tx.accountKeys, post.accountIndex))

\* tokenInfo.price > 0 ? (absAmount * tokenInfo.price).toFixed(2) : "0.00"
usdValueOf(absAmount, price) ==
    IF price.m > 0 THEN ToFixed(DecMul(absAmount, price), 2)
    ELSE <<"0", ".", "0", "0">>

TransferRecord_SwappedLabels(tx, post, change, tokenInfo) ==
    LET amount    == Dec(change, post.decimals)
        absAmount == DecAbs(amount)
        owner     == ownerAddressOf(tx, post)
    IN  [token    |-> tokenInfo.symbol,
         amount   |-> (IF amount.m > 0 THEN <<"+">> ELSE <<"-">>)
                        \o ToFixed(absAmount, 6),
         usdValue |-> <<"$">> \o usdValueOf(absAmount, tokenInfo.price),
         from     |-> IF amount.m > 0 THEN owner ELSE POOL_ACCOUNT,
         to       |-> IF amount.m < 0 THEN owner ELSE POOL_ACCOUNT,
         color    |-> IF amount.m > 0 THEN "text-green-400" ELSE "text-red-400"]

TransferRecord_MetadataDecimals(tx, post, change, tokenInfo) ==
    LET amount    == Dec(change, tokenInfo.decimals)
        absAmount == DecAbs(amount)
        owner     == ownerAddressOf(tx, post)
    IN  [token    |-> tokenInfo.symbol,
         amount   |-> (IF amount.m > 0 THEN <<"+">> ELSE <<"-">>)
                        \o ToFixed(absAmount, 6),
         usdValue |-> <<"$">> \o usdValueOf(absAmount, tokenInfo.price),
         from     |-> IF amount.m < 0 THEN owner ELSE POOL_ACCOUNT,
         to       |-> IF amount.m > 0 THEN owner ELSE POOL_ACCOUNT,
         color    |-> IF amount.m > 0 THEN "text-green-400" ELSE "text-red-400"]

\* the object pushed on tokenTransfers
TransferRecord(tx, post, change, tokenInfo) ==
    LET amount    == Dec(change, post.decimals)
        absAmount == DecAbs(amount)
        owner     == ownerAddressOf(tx, post)
    IN  [token    |-> tokenInfo.symbol,
         amount   |-> (IF amount.m > 0 THEN <<"+">> ELSE <<"-">>)
                        \o ToFixed(absAmount, 6),
         usdValue |-> <<"$">> \o usdValueOf(absAmount, tokenInfo.price),
         from     |-> IF amount.m < 0 THEN owner ELSE POOL_ACCOUNT,
         to       |-> IF amount.m > 0 THEN owner ELSE POOL_ACCOUNT,
         color    |-> IF amount.m > 0 THEN "text-green-400" ELSE "text-red-400"]

\* the object pushed on tokenChangesByWallet[ownerAddress]; the change string
\* is the sign, the digits, a space and the symbol (the symbol as one element)
ChangeRecord(tx, post, change, tokenInfo) ==
    LET amount    == Dec(change, post.decimals)
        absAmount == DecAbs(amount)
    IN  [wallet |-> ownerAddressOf(tx, post),
         change |-> (IF amount.m > 0 THEN <<"+">> ELSE <<>>)
                      \o ToFixed(absAmount, 6) \o <<" ", tokenInfo.symbol>>,
         reason |-> IF amount.m > 0 THEN "Swap In" ELSE "Swap Out",
         color  |-> IF amount.m > 0 THEN "text-green-400" ELSE "text-red-400",
         type   |-> IF amount.m > 0 THEN "swap_in" ELSE "swap_out"]

FeeChange_NoSign(tx) ==
    [wallet |-> pubkeyToBase58(KeyAt(tx.accountKeys, 0)),
     change |-> ToFixed(solFeeOf(tx), 9) \o <<" ", "SOL">>,
     reason |-> "Transaction Fee",
     color  |-> "text-red-400",
     type   |-> "fee"]

\* the fee entry pushed first on accountChanges
FeeChange(tx) ==
    [wallet |-> pubkeyToBase58(KeyAt(tx.accountKeys, 0)),
     change |-> <<"-">> \o ToFixed(solFeeOf(tx), 9) \o <<" ", "SOL">>,
     reason |-> "Transaction Fee",
     color  |-> "text-red-400",
     type   |-> "fee"]

PushByWallet_Overwrite(byWallet, rec) ==
    IF \E k \in 1..Len(byWallet) : byWallet[k].wallet = rec.wallet
    THEN [k \in 1..Len(byWallet) |->
            IF byWallet[k].wallet = rec.wallet
            THEN [byWallet[k] EXCEPT !.changes = <<rec>>]
            ELSE byWallet[k]]
    ELSE Append(byWallet, [wallet |-> rec.wallet, changes |-> <<rec>>])

\* tokenChangesByWallet after a push: the wallets in insertion order, each
\* with its changes in push order
PushByWallet(byWallet, rec) ==
    IF \E k \in 1..Len(byWallet) : byWallet[k].wallet = rec.wallet
    THEN [k \in 1..Len(byWallet) |->
            IF byWallet[k].wallet = rec.wallet
            THEN [byWallet[k] EXCEPT !.changes = Append(@, rec)]
            ELSE byWallet[k]]
    ELSE Append(byWallet, [wallet |-> rec.wallet, changes |-> <<rec>>])

\* Object.values(tokenChangesByWallet).flat()
RECURSIVE Flat(_)
Flat(byWallet) ==
    IF byWallet = <<>> THEN <<>>
    ELSE Head(byWallet).changes \o Flat(Tail(byWallet))

accountChangesOf(tx, byWallet) == <<FeeChange(tx)>> \o Flat(byWallet)

----------------------------------------------------------------------------
(* Text generation                                                         *)

\* What the provider's endpoint answers: nothing (fetch rejects), or a status
\* and a body.  The body does not parse ("unparseable"), is the JSON null
\* ("null"), is a value without the generated text (an error object, an
\* empty choices list: "notext"), or carries the text: empty ("emptytext"),
\* whitespace only ("blank") or proper ("text").
LlmBodies == {"unparseable", "null", "notext", "emptytext", "blank", "text"}

LlmStatuses == {200, 401, 500}

Unreachable == [status |-> 0, body |-> "unreachable"]

ProviderResponse(status, body) == [status |-> status, body |-> body]

\* the answer with status 200 that makes callLLM end as the label says
ResponseOf(label) ==
    CASE label = "throws" -> Unreachable
      [] label = "empty" -> ProviderResponse(200, "notext")
      [] label = "blank" -> ProviderResponse(200, "blank")
      [] OTHER -> ProviderResponse(200, "text")

\* callGroq, callGemini, callOpenAI, callDeepSeek: fetch, response.json(),
\* then data.choices?.[0]?.message?.content || "" (callGemini:
\* data.candidates?.[0]?.content?.parts?.[0]?.text || ""); response.ok and
\* response.status are never read.  The result is "throws", or the returned
\* string: "empty" (""), "blank" (whitespace only) or "text".
callProvider(response) ==
    IF response.body \in {"unreachable", "unparseable", "null"} THEN "throws"
    ELSE IF response.body \in {"notext", "emptytext"} THEN "empty"
    ELSE IF response.body = "blank" THEN "blank"
    ELSE "text"

\* the switch of callLLM
callLLM(llm, response) ==
    IF llm \in Providers THEN callProvider(response) ELSE "throws"

GENERATED_TEXT == "Generated text."

\* (await callLLM(prompt)).trim()
TrimmedResponse(outcome) == IF outcome = "text" THEN GENERATED_TEXT ELSE ""

\* the try/catch of the generate* functions: response.trim() || fallback,
\* and the fallback when callLLM throws
Generated(outcome, fallback) ==
    IF outcome = "throws" THEN fallback
    ELSE IF TrimmedResponse(outcome) # "" THEN TrimmedResponse(outcome)
    ELSE fallback

generateBeginnerExplanation(txType, outcome) ==
    Generated(outcome, FallbackBeginner(txType))

generateDeveloperExplanation(txType, outcome) ==
    Generated(outcome, FallbackDeveloper(txType))

\* `${stepTitle} - Step ${stepNumber}`
StepFallback(stepTitle, stepNumber) == <<stepTitle, " - Step ">> \o Digits(stepNumber)

generateStepDescription(stepTitle, stepNumber, outcome) ==
    IF outcome = "throws" \/ TrimmedResponse(outcome) = ""
    THEN StepFallback(stepTitle, stepNumber)
    ELSE <<TrimmedResponse(outcome)>>

generateProgramDescription(programName, outcome) ==
    IF outcome = "throws" \/ TrimmedResponse(outcome) = ""
    THEN <<programName, " - involved in this transaction">>
    ELSE <<TrimmedResponse(outcome)>>

----------------------------------------------------------------------------
(* The state of one request                                                *)

Requests == {"r1", "r2"}

NoTx ==
    [hasTransaction |-> FALSE, hasMeta |-> FALSE, fee |-> NoFee, err |-> FALSE,
     accountKeys |-> <<>>, instructions |-> <<>>, pre |-> <<>>, post |-> <<>>]

NoPriceData == [kind |-> "none", map |-> [m \in {} |-> NoEntry]]

\* priceData[mint]
EntryOf(priceData, mint) ==
    IF mint \in DOMAIN priceData.map THEN priceData.map[mint] ELSE NoEntry

NoResult ==
    [present |-> FALSE, signature |-> <<>>, status |-> "", type |-> "",
     fee |-> [sol |-> <<>>, usd |-> <<>>],
     explanations |-> [beginner |-> "", developer |-> ""],
     steps |-> <<>>, programs |-> <<>>, tokenTransfers |-> <<>>,
     accountChanges |-> <<>>,
     feeComparison |-> [solanaFee |-> <<>>, ethereumFee |-> "", savings |-> <<>>]]

IdleRequest ==
    [pc |-> "idle",
     requestId |-> 0,
     body |-> [kind |-> "none", signature |-> JsUndefined],
     onLedger |-> FALSE,            \* the ledger holds the posted signature's transaction
     signature |-> JsUndefined,
     status |-> 0,                  \* the HTTP status of the response
     error |-> "",                  \* the error field of the response
     responseId |-> 0,              \* the requestId field of the response
     fields |-> {},                 \* the keys of the response body
     calls |-> [ledger |-> 0, market |-> 0, bulk |-> 0, llm |-> 0],
     ledgerArg |-> <<>>,            \* the signature given to getParsedTransaction
     ledger |-> "none",             \* how the ledger fetch ended
     tx |-> NoTx,
     solOutcome |-> "none",         \* how the reference-price request ended
     solPriceUsd |-> Dec(0, 0),
     usdFee |-> <<>>,
     priceQueries |-> <<>>,         \* the mint lists sent to the price endpoint
     priceData |-> NoPriceData,
     i |-> 1,                       \* position in postTokenBalances
     tokenInfoCalls |-> 0,          \* getTokenInfo calls made so far
     lookups |-> <<>>,              \* how this request's metadata requests ended
     tokenTransfers |-> <<>>,
     deltas |-> <<>>,               \* per transfer: the delta it was made from
     tokenChangesByWallet |-> <<>>,
     accountChanges |-> <<>>,
     programIds |-> <<>>,
     txType |-> "",
     llmOutcomes |-> <<>>,          \* how the two explanation calls ended
     settled |-> <<>>,              \* the calls of the pending Promise.all that
                                    \* have settled, in the order they settled
     llmLog |-> [explain |-> <<>>, steps |-> <<>>, programs |-> <<>>],
                                    \* per Promise.all: the calls as they settled
     explanations |-> [beginner |-> "", developer |-> ""],
     steps |-> <<>>,
     result |-> NoResult]

ERR_JSON      == "Invalid JSON in request body"
ERR_REQUIRED  == "Transaction signature is required"
ERR_FORMAT    == "Invalid Solana transaction signature format. Signature must be a base58-encoded string of 87-88 characters."
ERR_KEY       == "API key not configured"
ERR_NOT_FOUND == "Transaction not found. The transaction may not exist or the network is experiencing issues."
ERR_INTERNAL  == "Internal server error occurred while analyzing transaction"

\* the keys of ExplanationResult, lines 603-625
RESULT_KEYS ==
    {"signature", "status", "timestamp", "fee", "type", "explanations", "steps",
     "programs", "tokenTransfers", "accountChanges", "feeComparison"}

ResponseKeys_CatchWithoutId(status, error, present) ==
    IF status = 200
    THEN (IF present THEN RESULT_KEYS ELSE {})
         \cup {"analyzedAt", "requestId", "processingTime", "metadata"}
    ELSE IF error = ERR_INTERNAL
    THEN {"error", "details", "timestamp", "processingTime"}
    ELSE {"error", "requestId", "timestamp"}

\* The keys of the body given to NextResponse.json: the success body spreads
\* the result (nothing when it is null), the catch block adds details and
\* processingTime, every other error body has three keys.
ResponseKeys(status, error, present) ==
    IF status = 200
    THEN (IF present THEN RESULT_KEYS ELSE {})
         \cup {"analyzedAt", "requestId", "processingTime", "metadata"}
    ELSE IF error = ERR_INTERNAL
    THEN {"error", "details", "requestId", "timestamp", "processingTime"}
    ELSE {"error", "requestId", "timestamp"}

\* NextResponse.json(body, {status}); requestId is the const of line 631
Respond(st, status, error) ==
    [st EXCEPT !.pc = "done", !.status = status, !.error = error,
               !.responseId = st.requestId,
               !.fields = ResponseKeys(status, error, st.result.present)]

----------------------------------------------------------------------------
(* transformTransaction between its await points                           *)

\* the pushes of one loop iteration, lines 526-553; via and cached note how
\* getTokenInfo got tokenInfo and whether JUPITER_TOKENS_CACHE holds the mint
\* as it returns
PushDelta(st, tokenInfo, via, cached) ==
    LET tx     == st.tx
        post   == tx.post[st.i]
        change == ChangeOf(tx, st.i)
    IN  [st EXCEPT
           !.tokenTransfers = Append(@, TransferRecord(tx, post, change, tokenInfo)),
           !.deltas = Append(@, [index |-> st.i, mint |-> post.mint,
                                 change |-> change, decimals |-> post.decimals,
                                 owner |-> ownerAddressOf(tx, post), via |-> via,
                                 entry |-> EntryOf(st.priceData, post.mint),
                                 info |-> tokenInfo, cached |-> cached]),
           !.tokenChangesByWallet =
               PushByWallet(@, ChangeRecord(tx, post, change, tokenInfo)),
           !.i = st.i + 1]

\* lines 556-581: the account changes, the classification, and the two
\* explanation calls being issued
AfterLoop(st, llm) ==
    [st EXCEPT
       !.accountChanges = accountChangesOf(st.tx, st.tokenChangesByWallet),
       !.programIds = programIdsOf(st.tx),
       !.txType = determineTransactionType(programIdsOf(st.tx)),
       !.calls.llm = @ + (IF llm \in Providers THEN 2 ELSE 0),
       !.pc = "explain"]

\* The loop of lines 516-554 from position st.i up to its next await that
\* waits for a response (the token list or the search), or to its end.
\* cache and loaded are JUPITER_TOKENS_CACHE and CACHE_LOADED as this run
\* of the code reads them.
RECURSIVE RunLoop(_, _, _, _)
RunLoop(st, cache, loaded, llm) ==
    LET j == NextDelta(st.tx, st.i)
    IN  IF j > Len(st.tx.post) THEN AfterLoop([st EXCEPT !.i = j], llm)
        ELSE IF st.priceData.kind = "null"
        THEN Respond([st EXCEPT !.i = j], 500, ERR_INTERNAL)
        ELSE IF ~loaded
        THEN [st EXCEPT !.i = j, !.pc = "loading", !.tokenInfoCalls = @ + 1,
                        !.calls.market = @ + 1, !.calls.bulk = @ + 1]
        ELSE LET mint == st.tx.post[j].mint
             IN  IF mint \in DOMAIN cache
                 THEN RunLoop(PushDelta([st EXCEPT !.i = j, !.tokenInfoCalls = @ + 1],
                                        TokenInfoFrom(cache[mint],
                                                      EntryOf(st.priceData, mint)),
                                        "cache", TRUE),
                              cache, loaded, llm)
                 ELSE [st EXCEPT !.i = j, !.pc = "searching",
                                 !.tokenInfoCalls = @ + 1, !.calls.market = @ + 1]

----------------------------------------------------------------------------
(* The tutor route                                                         *)

\* a string held as one element
Word(w) == JsString(<<w>>)

\* an element of messages: an object with a role and a content (either may
\* be missing), or a value that is no object (null, a string)
Entry(role, content) == [t |-> "object", role |-> role, content |-> content]

NonObject(t) == [t |-> t, role |-> JsUndefined, content |-> JsUndefined]

\* the messages field of the body: undefined, null, a string, a number, an
\* object that is no array, or an array of elements
NoMessages(t) == [t |-> t, items |-> <<>>]

MessageArray(items) == [t |-> "array", items |-> items]

isValidMessage_AnyRole(msg) ==
    /\ msg.t = "object"
    /\ msg.role.t = "string"
    /\ Truthy(msg.content)

\* msg && typeof msg === "object" && (msg.role === "user" ||
\* msg.role === "assistant") && msg.content
isValidMessage(msg) ==
    /\ msg.t = "object"
    /\ msg.role \in {Word("user"), Word("assistant")}
    /\ Truthy(msg.content)

\* the switch of generateWithLLM: an unknown selector goes to Groq
tutorProvider(llm) ==
    IF llm \in {"gemini", "openai", "deepseek"} THEN llm ELSE "groq"

SOLANA_SYSTEM_PROMPT == Word("SOLANA_SYSTEM_PROMPT")

\* What generateWithGroq, generateWithOpenAI and generateWithDeepSeek send:
\* the system prompt and then the messages; generateWithGemini sends one text
\* that starts with the prompt and names each message "User" or "Assistant".
generateWith(provider, messages) ==
    <<[role |-> Word("system"), content |-> SOLANA_SYSTEM_PROMPT]>>
    \o [k \in 1..Len(messages) |->
          [role |-> IF provider # "gemini" THEN messages[k].role
                    ELSE IF messages[k].role = Word("user") THEN Word("User")
                    ELSE Word("Assistant"),
           content |-> messages[k].content]]

\* generateWith* after its fetch: a rejected fetch throws, !response.ok
\* throws, and so does a body that does not parse or has no choices[0]
tutorText(response) ==
    IF response.body = "unreachable" THEN "throws"
    ELSE IF response.status < 200 \/ response.status > 299 THEN "throws"
    ELSE IF response.body \in {"unparseable", "null", "notext"} THEN "throws"
    ELSE response.body

TUTOR_ERR_REQUIRED == "Messages array is required"
TUTOR_ERR_NO_VALID == "No valid messages found"
TUTOR_ERR_CATCH    == "I encountered an error"

IdleTutor ==
    [pc |-> "idle",
     body |-> [kind |-> "none", messages |-> NoMessages("undefined")],
     provider |-> "",
     sent |-> <<>>,                 \* the messages given to the provider
     calls |-> 0,                   \* requests made to the provider
     status |-> 0,
     error |-> "",
     text |-> ""]

\* NextResponse.json(..., {status})
TutorRespond(st, status, error) ==
    [st EXCEPT !.pc = "done", !.status = status, !.error = error]

\* POST of the tutor route up to the provider request, lines 809-825, and
\* generateWithLLM up to its fetch
TutorReceive(st, body, llm, keys) ==
    LET st0 == [st EXCEPT !.body = body]
        messages == IF body.kind = "object" THEN body.messages
                    ELSE NoMessages("undefined")
        validMessages == SelectSeq(messages.items, isValidMessage)
        provider == tutorProvider(llm)
    IN  IF body.kind \in {"unparseable", "null"}
        THEN TutorRespond(st0, 500, TUTOR_ERR_CATCH)
        ELSE IF messages.t # "array" \/ Len(messages.items) = 0
        THEN TutorRespond(st0, 400, TUTOR_ERR_REQUIRED)
        ELSE IF validMessages = <<>>
        THEN TutorRespond(st0, 400, TUTOR_ERR_NO_VALID)
        ELSE IF ~keys[provider]
        THEN TutorRespond([st0 EXCEPT !.provider = provider], 500, TUTOR_ERR_CATCH)
        ELSE [st0 EXCEPT !.pc = "provider",
                         !.provider = provider,
                         !.sent = generateWith(provider, validMessages),
                         !.calls = @ + 1]

----------------------------------------------------------------------------
(* The explainer page (SolanaExplainer)                                    *)

MaxAnalyses == 3   \* most analysis requests the page starts

\* the text of the search box: empty, whitespace only, or a signature
SearchTexts == {<<>>, <<" ">>, <<"s", "i", "g">>}

EXAMPLE_SIGNATURE == <<"e", "x">>

\* the useState values of lines 84-90 before the mount effect
ExplainerUnmounted ==
    [mounted |-> FALSE,
     searchValue |-> <<>>,
     isLoading |-> FALSE,
     showContent |-> FALSE,
     transactionData |-> "null",
     error |-> "null",
     inFlight |-> 0,                \* analysis requests not yet answered
     started |-> 0]                 \* analysis requests started so far

\* analyzeTransaction up to its fetch, lines 115-127
analyzeTransaction(st) ==
    [st EXCEPT !.isLoading = TRUE,
               !.showContent = FALSE,
               !.error = "null",
               !.inFlight = @ + 1,
               !.started = @ + 1]

\* handleExampleTransaction, lines 146-150
handleExampleTransaction(st) ==
    analyzeTransaction([st EXCEPT !.searchValue = EXAMPLE_SIGNATURE])

\* handleAnalyze runs the analysis, lines 152-156
CanAnalyze(st) == Trim(st.searchValue) # <<>>

\* analyzeTransaction after its awaits, lines 129-143; outcome is how the
\* request ended: "ok", "rejected" (a status that is not ok) or "failed"
\* (no response, or a body that does not parse)
analysisDone(st, outcome) ==
    LET st1 == IF outcome = "ok"
               THEN [st EXCEPT !.transactionData = "data", !.showContent = TRUE]
               ELSE [st EXCEPT !.error = IF outcome = "rejected" THEN "data.error"
                                         ELSE "err.message"]
    IN  [st1 EXCEPT !.isLoading = FALSE, !.inFlight = @ - 1]

----------------------------------------------------------------------------
(* The tutor page (TutorPage)                                              *)

MaxSends == 3      \* most messages the user sends

InputTexts == {<<>>, <<" ">>, <<"q">>}

\* the useState values of lines 27-32 before the mount effect; a message is
\* its role and, as a tag, the send it belongs to (0 for the welcome)
TutorPageUnmounted ==
    [mounted |-> FALSE,
     wide |-> FALSE,                \* window.innerWidth >= 1024
     messages |-> <<>>,
     inputValue |-> <<>>,
     isLoading |-> FALSE,
     learningPaths |-> "null",
     pathsPending |-> FALSE,        \* the GET of the mount effect is in flight
     isSidebarOpen |-> FALSE,
     inFlight |-> {},               \* the sends whose POST is not yet answered
     sends |-> 0]

WELCOME == [role |-> "assistant", of |-> 0, kind |-> "welcome", concepts |-> FALSE]

\* handleSendMessage up to its fetch, lines 70-96; the send gets the next
\* number
handleSendMessage(st) ==
    LET k == st.sends + 1
    IN  [st EXCEPT !.inputValue = <<>>,
                   !.messages = Append(@, [role |-> "user", of |-> k,
                                           kind |-> "sent", concepts |-> FALSE]),
                   !.isLoading = TRUE,
                   !.isSidebarOpen = FALSE,
                   !.inFlight = @ \cup {k},
                   !.sends = k]

\* handleSendMessage after its awaits, lines 98-128: the reply, or the
\* "Oops!" message of the catch block, and isLoading reset
replyDone(st, k, outcome) ==
    [st EXCEPT
       !.messages = Append(@, [role |-> "assistant", of |-> k,
                               kind |-> IF outcome.kind = "ok" THEN "reply" ELSE "oops",
                               concepts |-> outcome.concepts]),
       !.isLoading = FALSE,
       !.inFlight = @ \ {k}]

\* the learning-path buttons are on the page, lines 217-248
PathsShown(st) ==
    st.mounted /\ st.learningPaths # "null" /\ (st.isSidebarOpen \/ st.wide)

\* some message shows related-concept badges, lines 310-326
BadgesShown(st) ==
    \E n \in 1..Len(st.messages) : st.messages[n].concepts

----------------------------------------------------------------------------
(* Actions.  E is the envelope of a specification: the requests it runs,   *)
(* the bodies they post, and the ways each upstream request may end.       *)

Init(E) ==
    /\ \E c \in E.configs : ACTIVE_LLM = c.llm /\ API_KEYS = c.keys
    /\ JUPITER_TOKENS_CACHE = [m \in {} |-> 0]
    /\ CACHE_LOADED = FALSE
    /\ rq = [r \in Requests |-> IdleRequest]
    /\ tutor = IdleTutor
    /\ explainer = ExplainerUnmounted
    /\ tutorPage = TutorPageUnmounted

\* POST up to the ledger fetch, lines 630-698
ReceivePost(r, E) ==
    /\ rq[r].pc = "idle"
    /\ \E body \in E.bodies, onLedger \in E.onLedger :
         LET st0 == [rq[r] EXCEPT
                       !.requestId = 1 + Cardinality({q \in Requests : rq[q].pc # "idle"}),
                       !.body = body,
                       !.onLedger = onLedger]
             signature == IF body.kind = "object" THEN body.signature ELSE JsUndefined
             st  == [st0 EXCEPT !.signature = signature]
         IN  rq' = [rq EXCEPT ![r] =
               IF body.kind = "unparseable" THEN Respond(st0, 400, ERR_JSON)
               ELSE IF body.kind = "null" THEN Respond(st0, 500, ERR_INTERNAL)
               ELSE IF signature.t \notin {"undefined", "null", "string"}
               THEN Respond(st, 500, ERR_INTERNAL)
               ELSE IF ~Truthy(signature) THEN Respond(st, 400, ERR_REQUIRED)
               ELSE IF ~isValidSolanaSignature(signature)
               THEN Respond(st, 400, ERR_FORMAT)
               ELSE IF ~activeKey(ACTIVE_LLM, API_KEYS)
               THEN Respond(st, 500, ERR_KEY)
               ELSE [st EXCEPT !.pc = "ledger", !.calls.ledger = @ + 1,
                               !.ledgerArg = signature.s]]
    /\ UNCHANGED <<explainer, tutorPage, tutor, ACTIVE_LLM, API_KEYS, JUPITER_TOKENS_CACHE, CACHE_LOADED>>

OnLedgerResult_NullIsError(st, o) ==
    IF o.kind \in {"throws", "null"} THEN Respond(st, 500, ERR_INTERNAL)
    ELSE IF ~o.tx.hasTransaction THEN Respond(st, 200, "")
    ELSE IF ~o.tx.hasMeta THEN Respond(st, 500, ERR_INTERNAL)
    ELSE [st EXCEPT !.pc = "solprice", !.calls.market = @ + 1]

\* lines 695-713 and the entry of transformTransaction, lines 491-501: what
\* POST does with the outcome o of connection.getParsedTransaction
OnLedgerResult(st, o) ==
    IF o.kind = "throws" THEN Respond(st, 500, ERR_INTERNAL)
    ELSE IF o.kind = "null" THEN Respond(st, 404, ERR_NOT_FOUND)
    ELSE IF ~o.tx.hasTransaction THEN Respond(st, 200, "")
    ELSE IF ~o.tx.hasMeta THEN Respond(st, 500, ERR_INTERNAL)
    ELSE [st EXCEPT !.pc = "solprice", !.calls.market = @ + 1]

\* connection.getParsedTransaction returns a record (of a transaction the
\* ledger holds), returns null (of one it does not hold), or throws
GetParsedTransaction(r, E) ==
    /\ rq[r].pc = "ledger"
    /\ \E o \in E.ledger :
         /\ o.kind = "record" => rq[r].onLedger
         /\ o.kind = "null" => ~rq[r].onLedger
         /\ rq' = [rq EXCEPT ![r] =
                OnLedgerResult([rq[r] EXCEPT !.ledger = o.kind, !.tx = o.tx], o)]
    /\ UNCHANGED <<explainer, tutorPage, tutor, ACTIVE_LLM, API_KEYS, JUPITER_TOKENS_CACHE, CACHE_LOADED>>

\* fetchSolPrice returns; lines 501-511
FetchSolPrice(r, E) ==
    /\ rq[r].pc = "solprice"
    /\ \E o \in E.solPrices :
         LET price == fetchSolPrice(o)
             st == [rq[r] EXCEPT !.solOutcome = o.kind,
                                 !.solPriceUsd = price,
                                 !.usdFee = usdFeeOf(rq[r].tx, price)]
         IN  rq' = [rq EXCEPT ![r] =
               IF uniqueMints(st.tx) = <<>>
               THEN RunLoop([st EXCEPT !.priceData = [kind |-> "map", map |-> [m \in {} |-> NoEntry]]],
                            JUPITER_TOKENS_CACHE, CACHE_LOADED, ACTIVE_LLM)
               ELSE [st EXCEPT !.pc = "prices", !.calls.market = @ + 1,
                               !.priceQueries = Append(@, uniqueMints(st.tx))]]
    /\ UNCHANGED <<explainer, tutorPage, tutor, ACTIVE_LLM, API_KEYS, JUPITER_TOKENS_CACHE, CACHE_LOADED>>

\* fetchTokenPrices returns: the response body, or {} when the request failed
fetchTokenPrices(o) ==
    IF o.kind = "fail" THEN [kind |-> "map", map |-> [m \in {} |-> NoEntry]] ELSE o

\* lines 511-526: the price query returns and the loop starts
FetchTokenPrices(r, E) ==
    /\ rq[r].pc = "prices"
    /\ \E o \in E.prices :
         rq' = [rq EXCEPT ![r] =
                  RunLoop([rq[r] EXCEPT !.priceData = fetchTokenPrices(o), !.i = 1],
                          JUPITER_TOKENS_CACHE, CACHE_LOADED, ACTIVE_LLM)]
    /\ UNCHANGED <<explainer, tutorPage, tutor, ACTIVE_LLM, API_KEYS, JUPITER_TOKENS_CACHE, CACHE_LOADED>>

AfterLoad_ReloadOnMiss(st, cache, llm) ==
    LET mint == st.tx.post[st.i].mint
    IN  IF mint \in DOMAIN cache
        THEN RunLoop(PushDelta(st, TokenInfoFrom(cache[mint], EntryOf(st.priceData, mint)),
                               "cache", TRUE),
                     cache, TRUE, llm)
        ELSE [st EXCEPT !.pc = "loading", !.calls.market = @ + 1,
                        !.calls.bulk = @ + 1]

\* getTokenInfo after loadJupiterTokens, lines 245-258: the cached token, or
\* the search request
AfterLoad(st, cache, llm) ==
    LET mint == st.tx.post[st.i].mint
    IN  IF mint \in DOMAIN cache
        THEN RunLoop(PushDelta(st, TokenInfoFrom(cache[mint], EntryOf(st.priceData, mint)),
                               "cache", TRUE),
                     cache, TRUE, llm)
        ELSE [st EXCEPT !.pc = "searching", !.calls.market = @ + 1]

\* The token-list request of loadJupiterTokens returns, lines 203-213: forEach
\* writes the tokens it reaches; a body that is no list, or a null element,
\* throws into the catch, and CACHE_LOADED is set either way.
LoadJupiterTokens(r, E) ==
    /\ rq[r].pc = "loading"
    /\ \E o \in E.bulk :
         LET cache == IF o.kind \in {"list", "partial"}
                      THEN CacheAll(JUPITER_TOKENS_CACHE, o.tokens)
                      ELSE JUPITER_TOKENS_CACHE
         IN  /\ JUPITER_TOKENS_CACHE' = cache
             /\ CACHE_LOADED' = TRUE
             /\ rq' = [rq EXCEPT ![r] =
                   AfterLoad([rq[r] EXCEPT !.lookups = Append(@, <<"list", o.kind>>)],
                             cache, ACTIVE_LLM)]
    /\ UNCHANGED <<explainer, tutorPage, tutor, ACTIVE_LLM, API_KEYS>>

\* The search request of getTokenInfo returns, lines 259-283: find stops at an
\* exact match; a body that is no list, or a null element met before a match,
\* throws into the catch and the synthetic value is returned.
SearchToken(r, E) ==
    /\ rq[r].pc = "searching"
    /\ \E o \in E.search :
         LET st    == [rq[r] EXCEPT !.lookups = Append(@, <<"search", o.kind>>)]
             mint  == st.tx.post[st.i].mint
             entry == EntryOf(st.priceData, mint)
             k     == IF o.kind \in {"results", "partial"}
                      THEN ExactMatch(o.tokens, mint) ELSE 0
             cache == IF k # 0 THEN CachePut(JUPITER_TOKENS_CACHE, mint, o.tokens[k])
                      ELSE JUPITER_TOKENS_CACHE
             info  == IF k # 0 THEN TokenInfoFrom(o.tokens[k], entry)
                      ELSE TokenInfoSynthetic(mint, entry)
         IN  /\ JUPITER_TOKENS_CACHE' = cache
             /\ rq' = [rq EXCEPT ![r] =
                   RunLoop(PushDelta(st, info, IF k # 0 THEN "search" ELSE "synthetic",
                                     mint \in DOMAIN cache),
                           cache, CACHE_LOADED, ACTIVE_LLM)]
    /\ UNCHANGED <<explainer, tutorPage, tutor, ACTIVE_LLM, API_KEYS, CACHE_LOADED>>

\* a settled call: its position in the array given to Promise.all, what
\* the provider answered, and how callLLM ended
Settled(n, response, llm) ==
    [index |-> n, response |-> response, outcome |-> callLLM(llm, response)]

\* the calls of an array settling in the order of the array
InOrder(responses, llm) ==
    [n \in 1..Len(responses) |-> Settled(n, responses[n], llm)]

OutcomeOf_BySettling(log, n) == log[n].outcome

\* Promise.all resolves to the values in the order of its array: the value
\* at position n is that of call n, whenever it settled
OutcomeOf(log, n) ==
    log[CHOOSE k \in 1..Len(log) : log[k].index = n].outcome

\* the calls the Promise.all being awaited was given
CallCount(st) ==
    CASE st.pc = "explain" -> 2
      [] st.pc = "steps" -> Len(generateBasicSteps(st.txType))
      [] st.pc = "programs" -> Len(st.programIds)
      [] OTHER -> 0

Pending(st) ==
    {n \in 1..CallCount(st) : \A k \in 1..Len(st.settled) : st.settled[k].index # n}

\* lines 578-590: the two explanations are there and the step calls start
JoinExplanations(st, log) ==
    [st EXCEPT
       !.llmOutcomes = <<OutcomeOf(log, 1), OutcomeOf(log, 2)>>,
       !.llmLog.explain = log,
       !.settled = <<>>,
       !.explanations =
           [beginner |-> generateBeginnerExplanation(st.txType, OutcomeOf(log, 1)),
            developer |-> generateDeveloperExplanation(st.txType, OutcomeOf(log, 2))],
       !.calls.llm = @ + Len(generateBasicSteps(st.txType)),
       !.pc = "steps"]

\* lines 583-598: the steps are there and the program calls start
JoinSteps(st, log) ==
    LET basicSteps == generateBasicSteps(st.txType)
    IN  [st EXCEPT
           !.llmLog.steps = log,
           !.settled = <<>>,
           !.steps = [n \in 1..Len(basicSteps) |->
                        [title |-> basicSteps[n],
                         description |->
                             generateStepDescription(basicSteps[n], n,
                                                     OutcomeOf(log, n)),
                         time |-> <<"Step ">> \o Digits(n)]],
           !.calls.llm = @ + Len(st.programIds),
           !.pc = "programs"]

\* the ExplanationResult of lines 600-625
ExplanationResult(st, programs) ==
    [present |-> TRUE,
     signature |-> st.signature.s,
     status |-> IF st.tx.err THEN "Failed" ELSE "Confirmed",
     type |-> st.txType,
     fee |-> [sol |-> ToFixed(solFeeOf(st.tx), 9), usd |-> st.usdFee],
     explanations |-> st.explanations,
     steps |-> st.steps,
     programs |-> programs,
     tokenTransfers |-> st.tokenTransfers,
     accountChanges |-> st.accountChanges,
     feeComparison |-> [solanaFee |-> <<"$">> \o st.usdFee,
                        ethereumFee |-> "$5-10",
                        savings |-> savingsOf(st.usdFee) \o <<"%">>]]

\* lines 592-740: the programs are there, transformTransaction returns and
\* POST answers 200
JoinPrograms(st, log) ==
    LET ids == st.programIds
        programs == [n \in 1..Len(ids) |->
               [name |-> ProgramName(ids[n], "Unknown Program"),
                description |->
                    generateProgramDescription(
                        ProgramName(ids[n], "Unknown Program"), OutcomeOf(log, n)),
                programId |-> ids[n]]]
        st1 == [st EXCEPT !.llmLog.programs = log, !.settled = <<>>]
    IN  Respond([st1 EXCEPT !.result = ExplanationResult(st1, programs)], 200, "")

\* Promise.all of the two explanations resolves, lines 578-590
GenerateExplanations(r, E) ==
    /\ rq[r].pc = "explain"
    /\ \E rb \in E.llm, rd \in E.llm :
         rq' = [rq EXCEPT ![r] =
                  JoinExplanations(rq[r], InOrder(<<rb, rd>>, ACTIVE_LLM))]
    /\ UNCHANGED <<explainer, tutorPage, tutor, ACTIVE_LLM, API_KEYS, JUPITER_TOKENS_CACHE, CACHE_LOADED>>

\* Promise.all of the step descriptions resolves, lines 583-598
GenerateSteps(r, E) ==
    /\ rq[r].pc = "steps"
    /\ \E responses \in [1..CallCount(rq[r]) -> E.stepLlm] :
         rq' = [rq EXCEPT ![r] = JoinSteps(rq[r], InOrder(responses, ACTIVE_LLM))]
    /\ UNCHANGED <<explainer, tutorPage, tutor, ACTIVE_LLM, API_KEYS, JUPITER_TOKENS_CACHE, CACHE_LOADED>>

\* Promise.all of the program descriptions resolves; transformTransaction
\* returns and POST answers 200, lines 592-740
GeneratePrograms(r, E) ==
    /\ rq[r].pc = "programs"
    /\ \E responses \in [1..CallCount(rq[r]) -> E.progLlm] :
         rq' = [rq EXCEPT ![r] = JoinPrograms(rq[r], InOrder(responses, ACTIVE_LLM))]
    /\ UNCHANGED <<explainer, tutorPage, tutor, ACTIVE_LLM, API_KEYS, JUPITER_TOKENS_CACHE, CACHE_LOADED>>

\* One call of the Promise.all being awaited settles: any of those still
\* pending, whatever its position in the array.
SettleCall(r, E) ==
    /\ rq[r].pc \in {"explain", "steps", "programs"}
    /\ \E n \in Pending(rq[r]) :
         \E response \in (CASE rq[r].pc = "explain" -> E.llm
                            [] rq[r].pc = "steps" -> E.stepLlm
                            [] OTHER -> E.progLlm) :
             rq' = [rq EXCEPT ![r].settled = Append(@, Settled(n, response, ACTIVE_LLM))]
    /\ UNCHANGED <<explainer, tutorPage, tutor, ACTIVE_LLM, API_KEYS, JUPITER_TOKENS_CACHE, CACHE_LOADED>>

\* Promise.all resolves once every call of its array has settled, and
\* transformTransaction goes on after its await.
ResumeAfterAll(r) ==
    /\ Pending(rq[r]) = {}
    /\ \/ /\ rq[r].pc = "explain"
          /\ rq' = [rq EXCEPT ![r] = JoinExplanations(rq[r], rq[r].settled)]
       \/ /\ rq[r].pc = "steps"
          /\ rq' = [rq EXCEPT ![r] = JoinSteps(rq[r], rq[r].settled)]
       \/ /\ rq[r].pc = "programs"
          /\ rq' = [rq EXCEPT ![r] = JoinPrograms(rq[r], rq[r].settled)]
    /\ UNCHANGED <<explainer, tutorPage, tutor, ACTIVE_LLM, API_KEYS, JUPITER_TOKENS_CACHE, CACHE_LOADED>>

Next(E) ==
    \E r \in E.requests :
        \/ ReceivePost(r, E)
        \/ GetParsedTransaction(r, E)
        \/ FetchSolPrice(r, E)
        \/ FetchTokenPrices(r, E)
        \/ LoadJupiterTokens(r, E)
        \/ SearchToken(r, E)
        \/ GenerateExplanations(r, E)
        \/ GenerateSteps(r, E)
        \/ GeneratePrograms(r, E)

\* the same program with each text-generation call settling on its own
NextSettling(E) ==
    \E r \in E.requests :
        \/ ReceivePost(r, E)
        \/ GetParsedTransaction(r, E)
        \/ FetchSolPrice(r, E)
        \/ FetchTokenPrices(r, E)
        \/ LoadJupiterTokens(r, E)
        \/ SearchToken(r, E)
        \/ SettleCall(r, E)
        \/ ResumeAfterAll(r)

\* a POST reaches the tutor route
TutorPost(E) ==
    /\ tutor.pc = "idle"
    /\ \E body \in E.bodies :
         tutor' = TutorReceive(tutor, body, ACTIVE_LLM, API_KEYS)
    /\ UNCHANGED <<ACTIVE_LLM, API_KEYS, JUPITER_TOKENS_CACHE, CACHE_LOADED, rq,
                 explainer, tutorPage>>

\* the provider answers the tutor's request, lines 825-843
TutorProviderResult(E) ==
    /\ tutor.pc = "provider"
    /\ \E response \in E.answers :
         LET text == tutorText(response)
         IN  tutor' = IF text = "throws"
                      THEN TutorRespond(tutor, 500, TUTOR_ERR_CATCH)
                      ELSE TutorRespond([tutor EXCEPT !.text = text], 200, "")
    /\ UNCHANGED <<ACTIVE_LLM, API_KEYS, JUPITER_TOKENS_CACHE, CACHE_LOADED, rq,
                 explainer, tutorPage>>

NextTutor(E) == TutorPost(E) \/ TutorProviderResult(E)

\* the mount effect, lines 164-166
ExplainerMount ==
    /\ ~explainer.mounted
    /\ explainer' = handleExampleTransaction([explainer EXCEPT !.mounted = TRUE])
    /\ UNCHANGED <<server, tutorPage>>

\* the user edits the search box, line 220
ExplainerType ==
    /\ explainer.mounted
    /\ \E text \in SearchTexts :
         /\ text # explainer.searchValue
         /\ explainer' = [explainer EXCEPT !.searchValue = text]
    /\ UNCHANGED <<server, tutorPage>>

\* the Analyze button, lines 225-227: disabled while loading or without text
ClickAnalyze ==
    /\ explainer.mounted
    /\ ~explainer.isLoading
    /\ CanAnalyze(explainer)
    /\ explainer.started < MaxAnalyses
    /\ explainer' = analyzeTransaction(explainer)
    /\ UNCHANGED <<server, tutorPage>>

\* Enter in the search box, lines 158-162 and 221: the box is never disabled
PressEnter ==
    /\ explainer.mounted
    /\ CanAnalyze(explainer)
    /\ explainer.started < MaxAnalyses
    /\ explainer' = analyzeTransaction(explainer)
    /\ UNCHANGED <<server, tutorPage>>

\* the example button, lines 240-243: disabled while loading
ClickExample ==
    /\ explainer.mounted
    /\ ~explainer.isLoading
    /\ explainer.started < MaxAnalyses
    /\ explainer' = handleExampleTransaction(explainer)
    /\ UNCHANGED <<server, tutorPage>>

\* one of the requests in flight is answered, lines 129-143
AnalysisDone ==
    /\ explainer.inFlight > 0
    /\ \E outcome \in {"ok", "rejected", "failed"} :
         explainer' = analysisDone(explainer, outcome)
    /\ UNCHANGED <<server, tutorPage>>

NextExplainer ==
    \/ ExplainerMount
    \/ ExplainerType
    \/ ClickAnalyze
    \/ PressEnter
    \/ ClickExample
    \/ AnalysisDone

\* the mount effect, lines 36-51
TutorPageMount ==
    /\ ~tutorPage.mounted
    /\ \E wide \in BOOLEAN :
         tutorPage' = [tutorPage EXCEPT !.mounted = TRUE, !.wide = wide,
                                        !.pathsPending = TRUE,
                                        !.messages = <<WELCOME>>]
    /\ UNCHANGED <<server, explainer>>

\* the GET of the mount effect is answered, lines 38-41
PathsLoaded ==
    /\ tutorPage.pathsPending
    /\ \E ok \in BOOLEAN :
         tutorPage' = [tutorPage EXCEPT
                         !.pathsPending = FALSE,
                         !.learningPaths = IF ok THEN "paths" ELSE @]
    /\ UNCHANGED <<server, explainer>>

\* the menu button of narrow windows, lines 169-175
ToggleSidebar ==
    /\ tutorPage.mounted
    /\ ~tutorPage.wide
    /\ tutorPage' = [tutorPage EXCEPT !.isSidebarOpen = ~@]
    /\ UNCHANGED <<server, explainer>>

\* the user edits the input, lines 352-357: disabled while loading
TutorType ==
    /\ tutorPage.mounted
    /\ ~tutorPage.isLoading
    /\ \E text \in InputTexts :
         /\ text # tutorPage.inputValue
         /\ tutorPage' = [tutorPage EXCEPT !.inputValue = text]
    /\ UNCHANGED <<server, explainer>>

\* Enter in the input or the send button, lines 131-136 and 356-362: both
\* disabled while loading; handleSendMessage returns on an empty text
SendTyped ==
    /\ tutorPage.mounted
    /\ ~tutorPage.isLoading
    /\ Trim(tutorPage.inputValue) # <<>>
    /\ tutorPage.sends < MaxSends
    /\ tutorPage' = handleSendMessage(tutorPage)
    /\ UNCHANGED <<server, explainer>>

\* a learning-path button, lines 258-267: never disabled
ClickQuestion ==
    /\ PathsShown(tutorPage)
    /\ tutorPage.sends < MaxSends
    /\ tutorPage' = handleSendMessage(tutorPage)
    /\ UNCHANGED <<server, explainer>>

\* a related-concept badge, lines 317-326: never disabled
ClickConcept ==
    /\ BadgesShown(tutorPage)
    /\ tutorPage.sends < MaxSends
    /\ tutorPage' = handleSendMessage(tutorPage)
    /\ UNCHANGED <<server, explainer>>

\* the POST of send k is answered, lines 98-128
ReplyDone(k) ==
    /\ k \in tutorPage.inFlight
    /\ \E outcome \in {[kind |-> "ok", concepts |-> TRUE],
                        [kind |-> "ok", concepts |-> FALSE],
                        [kind |-> "error", concepts |-> FALSE]} :
         tutorPage' = replyDone(tutorPage, k, outcome)
    /\ UNCHANGED <<server, explainer>>

NextTutorPage ==
    \/ TutorPageMount
    \/ PathsLoaded
    \/ ToggleSidebar
    \/ TutorType
    \/ SendTyped
    \/ ClickQuestion
    \/ ClickConcept
    \/ \E k \in 1..MaxSends : ReplyDone(k)

----------------------------------------------------------------------------
(* Inputs: request bodies                                                  *)

MaxPad == 1        \* most whitespace characters before and after a signature

SigLens == {0, 1, MinSigLen - 1, MinSigLen, MaxSigLen, MaxSigLen + 1}

\* n base58 characters; "zero" puts the non-alphabet character 0 first,
\* "space" puts a space in second place
SigBody(n, bad) ==
    [i \in 1..n |-> IF bad = "zero" /\ i = 1 THEN "0"
                    ELSE IF bad = "space" /\ i = 2 THEN " "
                    ELSE IF i % 2 = 0 THEN "z" ELSE "5"]

SigStrings ==
    {Rep(" ", l) \o SigBody(n, bad) \o Rep("\n", t) :
        l \in 0..MaxPad, t \in 0..MaxPad, n \in SigLens,
        bad \in {"none", "zero", "space"}}

SigValues ==
    {JsUndefined, JsNull, JsNumber(0), JsNumber(123), JsBoolean(FALSE),
     JsBoolean(TRUE), JsObject}
    \cup {JsString(s) : s \in SigStrings}

\* what request.json() gives: a parse failure, null, a primitive, an array,
\* or an object with (or without) a signature field
Bodies ==
    {[kind |-> k, signature |-> JsUndefined] :
        k \in {"unparseable", "null", "primitive", "array"}}
    \cup {[kind |-> "object", signature |-> v] : v \in SigValues}

ValidBody == [kind |-> "object", signature |-> JsString(SigBody(MaxSigLen, "none"))]

AllKeys  == [p \in Providers |-> TRUE]
NoKeys   == [p \in Providers |-> FALSE]
GroqOnly == [p \in Providers |-> p = "groq"]

\* process.env: the provider selector and the credentials
Configs ==
    {[llm |-> l, keys |-> k] :
        l \in Providers \cup {"claude"}, k \in {AllKeys, NoKeys, GroqOnly}}

GroqConfig == [llm |-> "groq", keys |-> GroqOnly]

----------------------------------------------------------------------------
(* Inputs: ledger records                                                  *)

PAYER == "Payer11111111111111111111111111111111111111"

AccountNames == <<"Acct1", "Acct2", "Acct3", "Acct4">>

Ix(programId) == [programId |-> programId, programIdIndex |-> 0]

Tx(fee, instructions, accountKeys, pre, post) ==
    [hasTransaction |-> TRUE, hasMeta |-> TRUE, fee |-> fee, err |-> FALSE,
     accountKeys |-> accountKeys, instructions |-> instructions,
     pre |-> pre, post |-> post]

Found(tx) == [kind |-> "record", tx |-> tx]

\* the programs an instruction may invoke
Programs ==
    {SYSTEM_PROGRAM, COMPUTE_BUDGET, TOKEN_PROGRAM, JUPITER_V4, JUPITER_V6,
     STAKE_PROGRAM, VOTE_PROGRAM, OTHER_PROGRAM}

MaxInstr == 2      \* most instructions of a record

InstrSeqs == UNION {[1..n -> Programs] : n \in 0..MaxInstr}

\* records that differ in their instructions
InstrRecords ==
    {Tx(5000, [k \in 1..Len(ps) |-> Ix(ps[k])], <<PAYER>>, <<>>, <<>>) :
        ps \in InstrSeqs}
    \cup {Tx(5000, <<[programId |-> Absent, programIdIndex |-> k]>>,
             <<PAYER, TOKEN_PROGRAM>>, <<>>, <<>>) : k \in 0..2}

\* one record for each classification
TypeRecords ==
    {Tx(5000, <<Ix(COMPUTE_BUDGET), Ix(p)>>, <<PAYER>>, <<>>, <<>>) :
        p \in Programs \ {COMPUTE_BUDGET, JUPITER_V4}}

MaxSignatures == 2 \* fees go up to this many signatures' worth

Fees ==
    {NoFee, 0, 1}
    \cup {5000 * k + d : k \in 1..MaxSignatures, d \in {0, 1, 2499, 2500, 4999}}

\* records that differ in their fee
FeeRecords == {Tx(f, <<Ix(SYSTEM_PROGRAM)>>, <<PAYER>>, <<>>, <<>>) : f \in Fees}

Mints == {"MintA", "MintB"}

MintDecimals(mint) == IF mint = "MintA" THEN 6 ELSE 9

OtherMint(mint) == IF mint = "MintA" THEN "MintB" ELSE "MintA"

LineKinds == {"credit", "debit", "zero", "new"}

\* the raw amounts before and after, as the ledger reports them
PreAmount(kind, mint) ==
    Digits(CASE kind = "credit" -> IF mint = "MintA" THEN 2000000 ELSE 0
             [] kind = "debit" -> IF mint = "MintA" THEN 5500000 ELSE 1500
             [] OTHER -> 7)

PostAmount(kind, mint) ==
    Digits(CASE kind = "credit" -> IF mint = "MintA" THEN 5500000 ELSE 1
             [] kind = "debit" -> IF mint = "MintA" THEN 2000000 ELSE 250
             [] OTHER -> 7)

\* balances of MintA carry their owner; those of MintB leave it to accountKeys
LineOwner(mint) == IF mint = "MintA" THEN "Wallet1" ELSE Absent

MaxLines == 2      \* most post-transaction token balances of a record

LineSeqs == UNION {[1..n -> LineKinds \X Mints] : n \in 0..MaxLines}

\* The record of a sequence of balance lines: line k is the balance of account
\* k.  A "new" line has no pre-transaction balance of its mint (only one of the
\* other mint); the pre-transaction list is in the opposite order.
LineRecord(ls) ==
    LET n    == Len(ls)
        post == [k \in 1..n |->
                   Balance(k, ls[k][2], LineOwner(ls[k][2]),
                           PostAmount(ls[k][1], ls[k][2]), MintDecimals(ls[k][2]))]
        pre  == [k \in 1..n |->
                   LET l == ls[n + 1 - k]
                       mint == IF l[1] = "new" THEN OtherMint(l[2]) ELSE l[2]
                   IN  Balance(n + 1 - k, mint, LineOwner(mint),
                               PreAmount(l[1], l[2]), MintDecimals(mint))]
    IN  Tx(5000, <<Ix(JUPITER_V6), Ix(TOKEN_PROGRAM)>>,
           <<PAYER>> \o SubSeq(AccountNames, 1, n), pre, post)

\* records that differ in their token balances
BalanceRecords == {LineRecord(ls) : ls \in LineSeqs}

\* records transformTransaction rejects
BrokenRecords ==
    {[Tx(5000, <<>>, <<PAYER>>, <<>>, <<>>) EXCEPT !.hasTransaction = FALSE],
     [Tx(5000, <<>>, <<PAYER>>, <<>>, <<>>) EXCEPT !.hasMeta = FALSE]}

----------------------------------------------------------------------------
(* Inputs: the upstream services                                           *)

LedgerFailures == {[kind |-> "throws", tx |-> NoTx], [kind |-> "null", tx |-> NoTx]}

PriceOf(p) == [kind |-> "price", usdPrice |-> p]

SolPriceFailures ==
    {[kind |-> k, usdPrice |-> NoPrice] :
        k \in {"fail", "malformed", "nullbody", "noentry", "noprice"}}

SolPrices ==
    SolPriceFailures
    \cup {PriceOf(p) : p \in {Dec(0, 0), Dec(1, 0), Dec(200, 0), Dec(18734, 2),
                              Dec(1000, 0)}}

TOKEN_A == JupiterToken("MintA", "AAA", 6, Dec(2, 0))
TOKEN_B == JupiterToken("MintB", "BBB", 9, NoPrice)

PriceMaps == [Mints -> {NoEntry, PriceEntry(Dec(25, 1), 6)}]

\* the price query: a failed request, a null body, or a map
TokenPrices ==
    {[kind |-> k, map |-> [m \in {} |-> NoEntry]] : k \in {"fail", "null"}}
    \cup {[kind |-> "map", map |-> pm] : pm \in PriceMaps}

\* a body that is no list of tokens: the request fails ("fail"), the body does
\* not parse ("malformed") or parses to something else ("nonlist")
NoList == {[kind |-> k, tokens |-> <<>>] : k \in {"fail", "malformed", "nonlist"}}

\* the token-list request: no list, a list, or ("partial") a list whose
\* element after the given tokens is null
BulkLists ==
    NoList
    \cup {[kind |-> "list", tokens |-> ts] : ts \in {<<>>, <<TOKEN_A>>, <<TOKEN_B, TOKEN_A>>}}
    \cup {[kind |-> "partial", tokens |-> <<TOKEN_A>>]}

\* the search request: no list, a list of results, or ("partial") a list
\* whose element after the given tokens is null
SearchResults ==
    NoList
    \cup {[kind |-> "results", tokens |-> ts] : ts \in {<<>>, <<TOKEN_B, TOKEN_A>>}}
    \cup {[kind |-> "partial", tokens |-> <<TOKEN_A>>]}

\* the entry of MintB as a later response reports it: the price has moved
TOKEN_B_LATER == JupiterToken("MintB", "BBB", 9, Dec(3, 0))

LlmOutcomes == {"throws", "empty", "blank", "text"}

\* one answer for each way callLLM can end
Answers(labels) == {ResponseOf(l) : l \in labels}

\* every status with every body, and no answer at all
LlmResponses ==
    {Unreachable} \cup {ProviderResponse(c, b) : c \in LlmStatuses, b \in LlmBodies}

----------------------------------------------------------------------------
(* Specifications                                                          *)

\* one request, every body and configuration, a record of each classification
PostEnvelope ==
    [requests |-> {"r1"},
     configs |-> Configs,
     bodies |-> Bodies,
     onLedger |-> BOOLEAN,
     ledger |-> LedgerFailures
                \cup {Found(tx) : tx \in TypeRecords \cup BrokenRecords}
                \cup {Found(LineRecord(<<<<"debit", "MintB">>>>))},
     solPrices |-> {PriceOf(Dec(200, 0))},
     prices |-> {pr \in TokenPrices : pr.kind = "fail"},
     bulk |-> {b \in BulkLists : b.kind \in {"fail", "list"} /\ b.tokens = <<>>},
     search |-> {s \in SearchResults : s.kind = "fail"},
     llm |-> Answers({"throws", "empty", "text"}),
     stepLlm |-> Answers({"text"}),
     progLlm |-> Answers({"throws"})]

Spec == Init(PostEnvelope) /\ [][Next(PostEnvelope)]_vars

\* One request with a valid body and a configured provider, a record with one
\* token debit, and one way for each upstream request to end: the envelope the
\* next three specifications widen in one respect each.
NarrowEnvelope ==
    [requests |-> {"r1"},
     configs |-> {GroqConfig},
     bodies |-> {ValidBody},
     onLedger |-> {TRUE},
     ledger |-> {Found(LineRecord(<<<<"debit", "MintB">>>>))},
     solPrices |-> {PriceOf(Dec(200, 0))},
     prices |-> {pr \in TokenPrices : pr.kind = "fail"},
     bulk |-> {b \in BulkLists : b.kind = "fail"},
     search |-> {s \in SearchResults : s.kind = "fail"},
     llm |-> Answers({"text"}),
     stepLlm |-> Answers({"text"}),
     progLlm |-> Answers({"text"})]

\* every instruction list, and every way the program descriptions can end
ClassifyEnvelope ==
    [NarrowEnvelope EXCEPT
       !.ledger = @ \cup {Found(tx) : tx \in InstrRecords},
       !.progLlm = Answers({"throws", "text"})]

SpecClassify == Init(ClassifyEnvelope) /\ [][Next(ClassifyEnvelope)]_vars

\* every fee and every reference price
FeeEnvelope ==
    [NarrowEnvelope EXCEPT
       !.ledger = @ \cup {Found(tx) : tx \in FeeRecords},
       !.solPrices = SolPrices]

SpecFee == Init(FeeEnvelope) /\ [][Next(FeeEnvelope)]_vars

\* every list of token balances, and every way the market-data requests end
TransformEnvelope ==
    [NarrowEnvelope EXCEPT
       !.ledger = {Found(tx) : tx \in BalanceRecords}
                  \cup {Found(tx) : tx \in {t \in FeeRecords : t.fee \in {NoFee, 0}}},
       !.solPrices = {o \in SolPriceFailures : o.kind \in {"fail", "noentry"}},
       !.prices = TokenPrices,
       !.bulk = {b \in BulkLists : b.kind \in {"fail", "list"}},
       !.search = {s \in SearchResults : s.kind \in {"fail", "results"}},
       !.llm = Answers({"blank"})]

SpecTransform == Init(TransformEnvelope) /\ [][Next(TransformEnvelope)]_vars

\* one request, a record with a debit and a credit and one with a single
\* debit, and every way the two metadata requests and the price query end
TokenEnvelope ==
    [NarrowEnvelope EXCEPT
       !.ledger = @ \cup {Found(LineRecord(<<<<"debit", "MintA">>, <<"credit", "MintB">>>>))},
       !.prices = TokenPrices,
       !.bulk = BulkLists,
       !.search = SearchResults]

SpecToken == Init(TokenEnvelope) /\ [][Next(TokenEnvelope)]_vars

\* Two requests for the same record in one process, interleaved at every
\* await; the price query reports MintB or not, and the metadata requests
\* fail or report MintB, the search with the earlier or the later entry.
CacheEnvelope ==
    [NarrowEnvelope EXCEPT
       !.requests = Requests,
       !.prices = {pr \in TokenPrices :
                      pr.kind = "map" /\ pr.map["MintA"] = NoEntry},
       !.bulk = {b \in BulkLists : b.kind = "fail" \/ Len(b.tokens) = 2},
       !.search = {s \in SearchResults : s.kind = "fail" \/ Len(s.tokens) = 2}
                  \cup {[kind |-> "results", tokens |-> <<TOKEN_B_LATER>>]}]

SpecCache == Init(CacheEnvelope) /\ [][Next(CacheEnvelope)]_vars

\* a record of each classification, and every way a step description's
\* call can end
StepsEnvelope ==
    [NarrowEnvelope EXCEPT
       !.ledger = @ \cup {Found(tx) : tx \in TypeRecords},
       !.stepLlm = Answers(LlmOutcomes)]

SpecSteps == Init(StepsEnvelope) /\ [][Next(StepsEnvelope)]_vars

\* every answer of the provider to the two explanation calls, under every
\* provider
LlmEnvelope ==
    [NarrowEnvelope EXCEPT
       !.configs = {[llm |-> l, keys |-> AllKeys] : l \in Providers},
       !.llm = LlmResponses]

SpecLlm == Init(LlmEnvelope) /\ [][Next(LlmEnvelope)]_vars

\* each text-generation call settling on its own, in any order, with text or
\* with a failure
SettlingEnvelope ==
    [NarrowEnvelope EXCEPT
       !.llm = Answers({"throws", "text"}),
       !.stepLlm = Answers({"throws", "text"}),
       !.progLlm = Answers({"throws", "text"})]

SpecSettling == Init(SettlingEnvelope) /\ [][NextSettling(SettlingEnvelope)]_vars

MaxMessages == 3   \* most elements of a messages array

TutorEntries ==
    {NonObject("null"), NonObject("string")}
    \cup {Entry(Word(role), content) :
            role \in {"user", "assistant", "system"},
            content \in {JsUndefined, JsString(<<>>), Word("hi")}}
    \cup {Entry(JsUndefined, Word("hi"))}

TutorBodies ==
    {[kind |-> k, messages |-> NoMessages("undefined")] :
        k \in {"unparseable", "null", "primitive", "array"}}
    \cup {[kind |-> "object", messages |-> NoMessages(t)] :
            t \in {"undefined", "null", "string", "number", "object"}}
    \cup {[kind |-> "object", messages |-> MessageArray(items)] :
            items \in UNION {[1..n -> TutorEntries] : n \in 0..MaxMessages}}

\* every body, four configurations (a provider with and without its
\* credential, an unknown selector), every answer of the provider
TutorEnvelope ==
    [configs |-> {GroqConfig, [llm |-> "gemini", keys |-> AllKeys],
                  [llm |-> "gemini", keys |-> GroqOnly],
                  [llm |-> "claude", keys |-> GroqOnly]},
     bodies |-> TutorBodies,
     answers |-> LlmResponses]

SpecTutor == Init(TutorEnvelope) /\ [][NextTutor(TutorEnvelope)]_vars

\* the pages run against one configuration of the routes
PageEnvelope == [configs |-> {GroqConfig}]

SpecExplainer == Init(PageEnvelope) /\ [][NextExplainer]_vars

\* every request the tutor page sends is answered in the end
SpecTutorPage ==
    /\ Init(PageEnvelope)
    /\ [][NextTutorPage]_vars
    /\ \A k \in 1..MaxSends : WF_vars(ReplyDone(k))

----------------------------------------------------------------------------
(* Properties                                                              *)

NoCalls(st) == st.calls = [ledger |-> 0, market |-> 0, bulk |-> 0, llm |-> 0]

\* a signature value that is not a string, or whose trimmed text has a length
\* outside 87..88 or a character outside the base58 alphabet
InvalidSignature(v) ==
    \/ v.t # "string"
    \/ LET t == Trim(v.s)
       IN  \/ Len(t) < 87 \/ Len(t) > 88
           \/ \E i \in 1..Len(t) : t[i] \notin Base58Chars

\* C1: a POST whose body carries a syntactically invalid signature (missing,
\* not a string, wrong trimmed length, a character outside base58) is answered
\* 400 and issues no ledger, market-data or text-generation call.
C1_InvalidSignatureIs400 ==
    \A r \in Requests :
        (/\ rq[r].pc = "done"
         /\ rq[r].body.kind = "object"
         /\ InvalidSignature(rq[r].body.signature))
        => (rq[r].status = 400 /\ NoCalls(rq[r]))

\* the active provider's credential is configured
KeyConfigured == ACTIVE_LLM \in DOMAIN API_KEYS /\ API_KEYS[ACTIVE_LLM]

\* a finished request with a valid signature of a transaction the ledger does
\* not hold, whose ledger fetch (if made) did not fail
NotFoundCase(r) ==
    /\ rq[r].pc = "done"
    /\ rq[r].body.kind = "object"
    /\ ~InvalidSignature(rq[r].body.signature)
    /\ ~rq[r].onLedger
    /\ rq[r].ledger # "throws"

\* C2 as claimed: a valid signature of a transaction that is not on the ledger
\* is answered 404 and never 500, whatever the configuration.
C2_NotFoundWhateverConfig ==
    \A r \in Requests : NotFoundCase(r) => rq[r].status = 404

\* C2 as amended: it is answered 404 when the active provider's credential is
\* configured; without the credential it is answered 500 and the ledger is
\* not asked.
C2_NotFoundWhenConfigured ==
    \A r \in Requests :
        NotFoundCase(r) =>
            IF KeyConfigured
            THEN rq[r].status = 404 /\ rq[r].ledger = "null"
            ELSE rq[r].status = 500 /\ rq[r].calls.ledger = 0

C2_Witness ==
    \E r \in Requests :
        /\ NotFoundCase(r)
        /\ rq[r].ledger = "null"
        /\ rq[r].status = 404

\* the addresses of the programs the instructions of a record invoke
InvokedPrograms(tx) ==
    {IF tx.instructions[k].programId # Absent THEN tx.instructions[k].programId
     ELSE KeyAt(tx.accountKeys, tx.instructions[k].programIdIndex) :
        k \in 1..Len(tx.instructions)} \ {Absent}

PriorityLabel(S) ==
    IF S \cap {JUPITER_V4, JUPITER_V6} # {} THEN "Token Swap"
    ELSE IF TOKEN_PROGRAM \in S THEN "Token Transfer"
    ELSE IF STAKE_PROGRAM \in S THEN "Stake"
    ELSE IF VOTE_PROGRAM \in S THEN "Vote"
    ELSE IF SYSTEM_PROGRAM \in S THEN "SOL Transfer"
    ELSE "Unknown"

\* C3: the classification of a record is decided by the set of programs its
\* instructions invoke, in the priority order aggregator, token, stake, vote,
\* system, else Unknown; the order of the instructions does not matter.
C3_ClassificationPriority ==
    \A r \in Requests :
        /\ rq[r].pc \in {"explain", "steps", "programs"}
             => rq[r].txType = PriorityLabel(InvokedPrograms(rq[r].tx))
        /\ rq[r].result.present
             => rq[r].result.type = PriorityLabel(InvokedPrograms(rq[r].tx))

C3_Witness ==
    \E r \in Requests :
        /\ rq[r].result.present
        /\ rq[r].tx.instructions = <<Ix(TOKEN_PROGRAM), Ix(JUPITER_V6)>>
        /\ rq[r].result.type = "Token Swap"

\* the balance delta of the j-th post-transaction entry: its raw amount minus
\* that of the pre-transaction entry of the same account and mint
BalanceDelta(tx, j) ==
    LET post == tx.post[j]
        pre  == CHOOSE p \in {tx.pre[k] : k \in 1..Len(tx.pre)} :
                    p.accountIndex = post.accountIndex /\ p.mint = post.mint
    IN  DigitsValue(post.amount) - DigitsValue(pre.amount)

\* the owner of the j-th post-transaction entry
BalanceOwner(tx, j) ==
    IF tx.post[j].owner # Absent THEN tx.post[j].owner
    ELSE tx.accountKeys[tx.post[j].accountIndex + 1]

\* C4: a transfer record made from a delta d # 0 has an amount starting with
\* "+" and to = owner, from = "Pool Account" when d > 0, an amount starting
\* with "-" and from = owner, to = "Pool Account" when d < 0; exactly one of
\* its two labels is the sentinel.
C4_SignAndLabels ==
    \A r \in Requests : \A k \in 1..Len(rq[r].tokenTransfers) :
        LET t     == rq[r].tokenTransfers[k]
            j     == rq[r].deltas[k].index
            d     == BalanceDelta(rq[r].tx, j)
            owner == BalanceOwner(rq[r].tx, j)
        IN  /\ d # 0
            /\ d > 0 => Head(t.amount) = "+" /\ t.to = owner /\ t.from = "Pool Account"
            /\ d < 0 => Head(t.amount) = "-" /\ t.from = owner /\ t.to = "Pool Account"
            /\ (t.from = "Pool Account") # (t.to = "Pool Account")

C4_Witness ==
    \E r \in Requests :
        /\ rq[r].result.present
        /\ \E k \in 1..Len(rq[r].result.tokenTransfers) :
             BalanceDelta(rq[r].tx, rq[r].deltas[k].index) > 0
        /\ \E k \in 1..Len(rq[r].result.tokenTransfers) :
             BalanceDelta(rq[r].tx, rq[r].deltas[k].index) < 0

\* C5: in every ExplanationResult the change string of every account-change
\* entry starts with "+" for a credit and with "-" for a debit or the fee.
C5_ExplicitSigns ==
    \A r \in Requests :
        rq[r].result.present =>
            \A k \in 1..Len(rq[r].result.accountChanges) :
                LET c == rq[r].result.accountChanges[k]
                IN  /\ c.type = "swap_in" => Head(c.change) = "+"
                    /\ c.type \in {"swap_out", "fee"} => Head(c.change) = "-"

\* C6: every ExplanationResult has exactly one account-change entry of type
\* "fee"; it is the first entry, its wallet is account 0 of the record, and its
\* change string starts with "-", also when the fee is 0 or absent.
C6_OneNegativeFeeEntry ==
    \A r \in Requests :
        rq[r].result.present =>
            LET ac == rq[r].result.accountChanges
            IN  /\ Len(ac) >= 1
                /\ ac[1].type = "fee"
                /\ Cardinality({k \in 1..Len(ac) : ac[k].type = "fee"}) = 1
                /\ ac[1].wallet = rq[r].tx.accountKeys[1]
                /\ Head(ac[1].change) = "-"

C6_Witness ==
    \E r \in Requests :
        /\ rq[r].result.present
        /\ rq[r].tx.fee \in {NoFee, 0}
        /\ rq[r].result.accountChanges[1].change
             = <<"-", "0", ".", "0", "0", "0", "0", "0", "0", "0", "0", "0", " ", "SOL">>

\* C7: for each label the classifier produces, an explanation whose
\* text-generation call fails equals the canned fallback of that label
\* (beginner or developer variant), and the request is answered 200.
C7_FallbackOfTheClassification ==
    \A r \in Requests :
        rq[r].result.present =>
            /\ rq[r].llmOutcomes[1] = "throws" =>
                 /\ rq[r].status = 200
                 /\ rq[r].result.type \in DOMAIN FALLBACK_EXPLANATIONS
                 /\ rq[r].result.explanations.beginner
                      = FALLBACK_EXPLANATIONS[rq[r].result.type].beginner
            /\ rq[r].llmOutcomes[2] = "throws" =>
                 /\ rq[r].status = 200
                 /\ rq[r].result.type \in DOMAIN FALLBACK_EXPLANATIONS
                 /\ rq[r].result.explanations.developer
                      = FALLBACK_EXPLANATIONS[rq[r].result.type].developer

\* every non-zero delta of a record has its transfer record in the result
EveryDeltaReported(r) ==
    rq[r].result.present =>
        \A j \in 1..Len(rq[r].tx.post) :
            (/\ \E k \in 1..Len(rq[r].tx.pre) :
                    /\ rq[r].tx.pre[k].accountIndex = rq[r].tx.post[j].accountIndex
                    /\ rq[r].tx.pre[k].mint = rq[r].tx.post[j].mint
             /\ BalanceDelta(rq[r].tx, j) # 0)
            => \E k \in 1..Len(rq[r].result.tokenTransfers) : rq[r].deltas[k].index = j

C9_FeeConversion ==
    \A r \in Requests :
        rq[r].result.present =>
            LET fee == IF rq[r].tx.fee = NoFee THEN 0 ELSE rq[r].tx.fee
                p   == rq[r].solPriceUsd
                sol == ParseFloat(rq[r].result.fee.sol)
                usd == ParseFloat(rq[r].result.fee.usd)
            IN  /\ sol = Dec(fee, 9)
                /\ usd.e = 4
                /\ 2 * Abs(usd.m * Pow10(5 + p.e) - fee * p.m) <= Pow10(5 + p.e)
                /\ (rq[r].tx.fee = 5000 /\ p = Dec(200, 0)) =>
                     /\ rq[r].result.fee.sol
                          = <<"0", ".", "0", "0", "0", "0", "0", "5", "0", "0", "0">>
                     /\ rq[r].result.fee.usd = <<"0", ".", "0", "0", "1", "0">>

C9_Witness ==
    \E r \in Requests :
        /\ rq[r].result.present
        /\ rq[r].tx.fee = 5000
        /\ rq[r].solPriceUsd = Dec(200, 0)
        /\ rq[r].result.fee.usd = <<"0", ".", "0", "0", "1", "0">>

\* the number a savings string "s%" shows, in hundredths of a percent
SavingsShown(s) ==
    LET body == SubSeq(s, 1, Len(s) - 1)
    IN  IF Head(body) = "-" THEN -(ParseFloat(Tail(body)).m)
        ELSE ParseFloat(body).m

----------------------------------------------------------------------------
(* Two runs in one process                                                 *)

\* two finished runs of transformTransaction on the same record with the same
\* price snapshot (reference price and price-query result), whose explanation
\* calls ended the same way
SameRun(a, b) ==
    /\ a # b
    /\ rq[a].result.present /\ rq[b].result.present
    /\ rq[a].tx = rq[b].tx
    /\ rq[a].solPriceUsd = rq[b].solPriceUsd
    /\ rq[a].priceData = rq[b].priceData
    /\ rq[a].llmOutcomes = rq[b].llmOutcomes

\* a transfer record without what comes from the token's metadata
TransferCore(t) == [amount |-> t.amount, from |-> t.from, to |-> t.to, color |-> t.color]

\* an account change without the symbol that ends its change string
ChangeCore(c) ==
    [wallet |-> c.wallet, reason |-> c.reason, type |-> c.type, color |-> c.color,
     change |-> SubSeq(c.change, 1, Len(c.change) - 1)]

\* the token metadata each transfer of a run was made with
InfoOf(r) == [k \in 1..Len(rq[r].deltas) |-> rq[r].deltas[k].info]

----------------------------------------------------------------------------
(* The credential check and the request body                               *)

\* C12: without a credential for the active provider (a known provider with
\* an empty key, or a selector that names no provider), a request issues no
\* ledger, market-data or text-generation call at any point, and a request
\* that reaches the credential check (its body and signature passed
\* validation) is answered 500 with the configuration error.
C12_NoCredentialFailsFast ==
    ~KeyConfigured =>
        \A r \in Requests :
            /\ NoCalls(rq[r])
            /\ (/\ rq[r].pc = "done"
                /\ rq[r].body.kind = "object"
                /\ ~InvalidSignature(rq[r].body.signature))
               => (/\ rq[r].status = 500
                   /\ rq[r].error = ERR_KEY
                   /\ rq[r].ledger = "none")

\* a valid signature posted to a process whose selector names no provider
C12_Witness ==
    \E r \in Requests :
        /\ ACTIVE_LLM \notin Providers
        /\ rq[r].pc = "done"
        /\ rq[r].body.kind = "object"
        /\ ~InvalidSignature(rq[r].body.signature)
        /\ rq[r].status = 500
        /\ rq[r].error = ERR_KEY

\* a body that is not an object carrying a signature: it does not parse, or it
\* parses to null, a primitive, an array, or an object without the field
MalformedBody(body) ==
    \/ body.kind \in {"unparseable", "null", "primitive", "array"}
    \/ body.kind = "object" /\ body.signature = JsUndefined

\* C13: every POST with a malformed body is answered 400, never 500.
C13_MalformedBodyIs400 ==
    \A r \in Requests :
        (rq[r].pc = "done" /\ MalformedBody(rq[r].body)) => rq[r].status = 400

----------------------------------------------------------------------------
(* The market-data functions never fail their caller                       *)

\* a TokenData value with a symbol, a numeric price and a decimals count
UsableTokenData(info) ==
    /\ info.symbol # ""
    /\ info.price # NoPrice /\ info.price.m >= 0
    /\ info.decimals \in Nat

C15_SolPriceFallback ==
    \A r \in Requests :
        rq[r].solOutcome \notin {"none", "price"} =>
            /\ rq[r].solPriceUsd = Dec(200, 0)
            /\ rq[r].usdFee =
                 ToFixed(Dec((IF rq[r].tx.fee = NoFee THEN 0 ELSE rq[r].tx.fee) * 200, 9), 4)
            /\ rq[r].status # 500

\* the body of the price response was null, and the fee of 5000 was
\* converted at 200
C15_Witness ==
    \E r \in Requests :
        /\ rq[r].solOutcome = "nullbody"
        /\ rq[r].tx.fee = 5000
        /\ rq[r].result.present
        /\ rq[r].result.fee.usd = <<"0", ".", "0", "0", "1", "0">>

----------------------------------------------------------------------------
(* The token cache                                                         *)

\* the values getTokenInfo returned from the cache, with the mint and the
\* price entry of each call
CacheServed ==
    {d \in UNION {{rq[r].deltas[k] : k \in 1..Len(rq[r].deltas)} : r \in Requests} :
        d.via = "cache"}

\* the token entries the upstream services report
ReportedTokens == {TOKEN_A, TOKEN_B, TOKEN_B_LATER}

C18_CacheAppendOnly ==
    [][\A m \in DOMAIN JUPITER_TOKENS_CACHE :
          /\ m \in DOMAIN JUPITER_TOKENS_CACHE'
          /\ JUPITER_TOKENS_CACHE'[m] = JUPITER_TOKENS_CACHE[m]]_vars

\* C19: when a transfer record is produced, the token cache holds the asset
\* of its delta, also when the metadata lookups of the asset failed.
C19_TransferAssetIsCached ==
    \A r \in Requests : \A k \in 1..Len(rq[r].deltas) : rq[r].deltas[k].cached

----------------------------------------------------------------------------
(* Error responses and the balance deltas                                  *)

\* C17: every error response (the 400s, the 404, the configuration 500 and
\* the generic 500) has an error, a requestId and a timestamp, and the
\* requestId is the one generated at the start of the request.
C17_ErrorsCarryCorrelation ==
    \A r \in Requests :
        (rq[r].pc = "done" /\ rq[r].status \in {400, 404, 500}) =>
            /\ {"error", "requestId", "timestamp"} \subseteq rq[r].fields
            /\ rq[r].requestId # 0
            /\ rq[r].responseId = rq[r].requestId

\* the ledger fetch threw and the catch block answered
C17_Witness ==
    \E r \in Requests :
        /\ rq[r].ledger = "throws"
        /\ rq[r].status = 500
        /\ rq[r].error = ERR_INTERNAL
        /\ "timestamp" \in rq[r].fields
        /\ rq[r].responseId = rq[r].requestId

\* the j-th post entry has a pre entry of the same account index and asset
\* whose raw amount differs
ChangedBalance(tx, j) ==
    \E k \in 1..Len(tx.pre) :
        /\ tx.pre[k].accountIndex = tx.post[j].accountIndex
        /\ tx.pre[k].mint = tx.post[j].mint
        /\ DigitsValue(tx.pre[k].amount) # DigitsValue(tx.post[j].amount)

\* the positions of the changed balances, in the order of the post list
ChangedPositions(tx) ==
    SelectSeq([j \in 1..Len(tx.post) |-> j], LAMBDA j : ChangedBalance(tx, j))

\* C20: tokenTransfers has, in the order of the post-transaction list, one
\* record for each post entry that has a pre entry of the same account index
\* and asset with a different raw amount, and no other record: entries
\* without a pre entry and entries with equal amounts give none.
C20_OneTransferPerChangedBalance ==
    \A r \in Requests :
        rq[r].result.present =>
            LET tx  == rq[r].tx
                pos == ChangedPositions(tx)
                tt  == rq[r].result.tokenTransfers
            IN  /\ Len(tt) = Len(pos)
                /\ \A k \in 1..Len(pos) :
                      LET d == BalanceDelta(tx, pos[k])
                      IN  /\ rq[r].deltas[k].index = pos[k]
                          /\ tt[k].amount =
                               <<IF d > 0 THEN "+" ELSE "-">>
                               \o ToFixed(Dec(Abs(d), tx.post[pos[k]].decimals), 6)
                          /\ BalanceOwner(tx, pos[k]) \in {tt[k].from, tt[k].to}

\* a record whose first balance is unchanged or new and whose second is
\* changed gave exactly one transfer
C20_Witness ==
    \E r \in Requests :
        /\ rq[r].result.present
        /\ Len(rq[r].tx.post) = 2
        /\ ~ChangedBalance(rq[r].tx, 1)
        /\ ChangedBalance(rq[r].tx, 2)
        /\ Len(rq[r].result.tokenTransfers) = 1

\* the distinct assets of the post-transaction balances
PostMints(tx) == {tx.post[j].mint : j \in 1..Len(tx.post)}

\* C21: a run of transformTransaction sends at most one price query; the
\* query lists every distinct asset of the post-transaction balances once;
\* it has been sent and answered before the first delta reaches getTokenInfo,
\* so it is not repeated per delta; a record without post-transaction token
\* balances sends none.
C21_OnePriceQueryBeforeDeltas ==
    \A r \in Requests :
        LET st == rq[r]
            qs == st.priceQueries
        IN  /\ Len(qs) <= 1
            /\ st.tx.post = <<>> => qs = <<>>
            /\ \A k \in 1..Len(qs) :
                  /\ {qs[k][n] : n \in 1..Len(qs[k])} = PostMints(st.tx)
                  /\ Len(qs[k]) = Cardinality(PostMints(st.tx))
            /\ (st.tokenInfoCalls > 0 \/ st.deltas # <<>>) =>
                  /\ Len(qs) = 1
                  /\ st.pc # "prices"
            /\ (st.result.present /\ st.tx.post # <<>>) => Len(qs) = 1

\* a run that processed two deltas of two different assets sent one query
\* that lists both
C21_Witness ==
    \E r \in Requests :
        /\ rq[r].result.present
        /\ Len(rq[r].deltas) = 2
        /\ rq[r].deltas[1].mint # rq[r].deltas[2].mint
        /\ Len(rq[r].priceQueries) = 1
        /\ Len(rq[r].priceQueries[1]) = 2

\* the owner a transfer record names: the label that is not the sentinel
TransferOwner(t) == IF t.amount[1] = "+" THEN t.to ELSE t.from

\* how many elements of a sequence satisfy a test
CountOf(seq, Test(_)) == Cardinality({k \in 1..Len(seq) : Test(seq[k])})

\* C25: accountChanges has one entry more than tokenTransfers; the entries
\* after the fee entry are "swap_in"/"Swap In" or "swap_out"/"Swap Out", and
\* for every wallet and sign there are as many of them as there are transfer
\* records of that owner and sign.
C25_OneChangePerTransfer ==
    \A r \in Requests :
        rq[r].result.present =>
            LET tt   == rq[r].result.tokenTransfers
                ac   == rq[r].result.accountChanges
                rest == SubSeq(ac, 2, Len(ac))
            IN  /\ Len(ac) = Len(tt) + 1
                /\ \A k \in 1..Len(rest) :
                      \/ rest[k].type = "swap_in" /\ rest[k].reason = "Swap In"
                      \/ rest[k].type = "swap_out" /\ rest[k].reason = "Swap Out"
                /\ \A k \in 1..Len(tt) :
                      LET w == TransferOwner(tt[k])
                          sign == tt[k].amount[1]
                          SameT(t) == TransferOwner(t) = w /\ t.amount[1] = sign
                          SameC(c) == /\ c.wallet = w
                                      /\ c.type = IF sign = "+" THEN "swap_in"
                                                   ELSE "swap_out"
                      IN  CountOf(tt, SameT) = CountOf(rest, SameC)

\* a result with a credit and a debit of the same wallet
C25_Witness ==
    \E r \in Requests :
        /\ rq[r].result.present
        /\ Len(rq[r].result.tokenTransfers) = 2
        /\ Len(rq[r].result.accountChanges) = 3
        /\ rq[r].result.accountChanges[2].wallet = rq[r].result.accountChanges[3].wallet
        /\ rq[r].result.accountChanges[2].type = "swap_in"
        /\ rq[r].result.accountChanges[3].type = "swap_out"

\* C26: the signature given to the ledger fetch has 87 or 88 characters, all
\* of the base58 alphabet: it is the text the validation accepted, without
\* surrounding whitespace.
C26_LedgerGetsValidatedSignature ==
    \A r \in Requests :
        rq[r].calls.ledger > 0 =>
            /\ Len(rq[r].ledgerArg) \in {MinSigLen, MaxSigLen}
            /\ \A i \in 1..Len(rq[r].ledgerArg) : rq[r].ledgerArg[i] \in Base58Chars

\* C27 as stated: the token-list endpoint is requested at most once in the
\* life of the process, however the getTokenInfo calls of concurrent requests
\* interleave.
C27_OneListRequestPerProcess ==
    \A a, b \in Requests :
        (rq[a].calls.bulk > 0 /\ rq[b].calls.bulk > 0) =>
            (a = b /\ rq[a].calls.bulk = 1)

\* C27, amended: a request asks for the token list only while CACHE_LOADED is
\* false, and at most once; CACHE_LOADED, once set, stays set, so no call
\* that starts after an attempt has finished asks again (calls that started
\* before may each have asked); when the attempt ends without the asset in
\* the cache, the call goes on to the per-identifier search.
C27_NoListRequestAfterLoaded ==
    [][\A r \in Requests :
          /\ rq'[r].calls.bulk > rq[r].calls.bulk =>
                /\ ~CACHE_LOADED
                /\ rq[r].calls.bulk = 0
                /\ rq'[r].calls.bulk = 1
          /\ CACHE_LOADED => CACHE_LOADED'
          /\ (rq[r].pc = "loading" /\ rq'[r].pc # "loading") =>
                /\ CACHE_LOADED'
                /\ rq[r].tx.post[rq[r].i].mint \notin DOMAIN JUPITER_TOKENS_CACHE' =>
                      /\ rq'[r].pc = "searching"
                      /\ rq'[r].calls.bulk = rq[r].calls.bulk]_vars

\* one request's list request failed and it went on to the search; the other
\* request, whose lookup started after that, searched without asking for the
\* list
C27_Witness ==
    \E a, b \in Requests :
        /\ rq[a].calls.bulk = 1
        /\ Len(rq[a].lookups) = 2
        /\ rq[a].lookups[1] = <<"list", "fail">>
        /\ rq[a].lookups[2][1] = "search"
        /\ rq[b].calls.bulk = 0
        /\ rq[b].tokenInfoCalls > 0
        /\ Len(rq[b].lookups) = 1
        /\ rq[b].lookups[1][1] = "search"

\* the call of position n among the settled calls of a Promise.all
CallAt(log, n) == CHOOSE e \in {log[k] : k \in 1..Len(log)} : e.index = n

\* C22: the classification fixes the steps: four for "Token Swap", three for
\* "Token Transfer", the three default ones for every other classification,
\* with these titles in this order and the time "Step n"; a step whose call
\* fails or returns no text (or only whitespace) is described by
\* "<step title> - Step <n>", any other by the generated text.
C22_StepsOfTheClassification ==
    \A r \in Requests :
        rq[r].result.present =>
            LET steps  == rq[r].result.steps
                type   == rq[r].result.type
                titles ==
                    CASE type = "Token Swap" ->
                           <<"Initialize Swap", "Token Account Check",
                             "Route Calculation", "Execute Swap">>
                      [] type = "Token Transfer" ->
                           <<"Initialize Transfer", "Verify Accounts",
                             "Execute Transfer">>
                      [] OTHER ->
                           <<"Initialize Transaction", "Process Instructions",
                             "Confirm Transaction">>
            IN  /\ Len(steps) = Len(titles)
                /\ \A n \in 1..Len(steps) :
                      /\ steps[n].title = titles[n]
                      /\ steps[n].time = <<"Step ", DigitSeq[n + 1]>>
                      /\ steps[n].description =
                           IF CallAt(rq[r].llmLog.steps, n).outcome = "text"
                           THEN <<GENERATED_TEXT>>
                           ELSE <<titles[n], " - Step ", DigitSeq[n + 1]>>

\* a token transfer whose first step was described by the provider, whose
\* second call failed and whose third returned no text
C22_Witness ==
    \E r \in Requests :
        /\ rq[r].result.present
        /\ rq[r].result.type = "Token Transfer"
        /\ Len(rq[r].result.steps) = 3
        /\ CallAt(rq[r].llmLog.steps, 1).outcome = "text"
        /\ CallAt(rq[r].llmLog.steps, 2).outcome = "throws"
        /\ CallAt(rq[r].llmLog.steps, 3).outcome = "empty"
        /\ rq[r].result.steps[2].description = <<"Verify Accounts", " - Step ", "2">>
        /\ rq[r].result.steps[3].description = <<"Execute Transfer", " - Step ", "3">>

\* the provider answered with a status outside 200..299, or with a body that
\* does not carry generated text
FailureResponse(response) ==
    \/ response.status < 200
    \/ response.status > 299
    \/ response.body \in {"unreachable", "unparseable", "null", "notext"}

\* C23: callLLM ends with an error whenever the provider answers with a
\* non-success status or with a body without generated text; it returns no
\* string in those cases.
C23_FailureSurfacesAsError ==
    \A r \in Requests :
        \A k \in 1..Len(rq[r].llmLog.explain) :
            FailureResponse(rq[r].llmLog.explain[k].response) =>
                rq[r].llmLog.explain[k].outcome = "throws"

\* every call 1..n is among the settled calls, once
AllSettled(log, n) ==
    /\ Len(log) = n
    /\ \A i \in 1..n : \E k \in 1..n : log[k].index = i

\* the text a call gave: the generated text, or the fallback when the call
\* threw or returned nothing
TextOr(outcome, fallback) == IF outcome = "text" THEN GENERATED_TEXT ELSE fallback

\* C24: a result exists only when every text-generation call of the run has
\* settled (the two explanations, one call per step, one per distinct
\* program), with text or with its fallback; the steps and the programs stand
\* in the order of their inputs, each with the text of its own call, in
\* whatever order the calls settled.
C24_JoinedInInputOrder ==
    \A r \in Requests :
        rq[r].result.present =>
            LET res   == rq[r].result
                log   == rq[r].llmLog
                ids   == programIdsOf(rq[r].tx)
                basic == generateBasicSteps(res.type)
            IN  /\ AllSettled(log.explain, 2)
                /\ AllSettled(log.steps, Len(basic))
                /\ AllSettled(log.programs, Len(ids))
                /\ rq[r].settled = <<>>
                /\ res.explanations.beginner =
                     TextOr(CallAt(log.explain, 1).outcome, FallbackBeginner(res.type))
                /\ res.explanations.developer =
                     TextOr(CallAt(log.explain, 2).outcome, FallbackDeveloper(res.type))
                /\ Len(res.steps) = Len(basic)
                /\ \A n \in 1..Len(basic) :
                      /\ res.steps[n].title = basic[n]
                      /\ res.steps[n].description =
                           IF CallAt(log.steps, n).outcome = "text"
                           THEN <<GENERATED_TEXT>>
                           ELSE <<basic[n], " - Step ", DigitSeq[n + 1]>>
                /\ Len(res.programs) = Len(ids)
                /\ \A n \in 1..Len(ids) :
                      /\ res.programs[n].programId = ids[n]
                      /\ res.programs[n].description =
                           IF CallAt(log.programs, n).outcome = "text"
                           THEN <<GENERATED_TEXT>>
                           ELSE <<res.programs[n].name, " - involved in this transaction">>

\* a result whose step calls settled last to first, the first with a
\* failure and the last with text, and whose second program call settled
\* before the first
C24_Witness ==
    \E r \in Requests :
        /\ rq[r].result.present
        /\ Len(rq[r].llmLog.steps) = 4
        /\ \A k \in 1..4 : rq[r].llmLog.steps[k].index = 5 - k
        /\ rq[r].llmLog.steps[1].outcome = "text"
        /\ rq[r].llmLog.steps[4].outcome = "throws"
        /\ Len(rq[r].llmLog.programs) = 2
        /\ rq[r].llmLog.programs[1].index = 2
        /\ rq[r].llmLog.programs[1].outcome = "throws"
        /\ rq[r].llmLog.programs[2].outcome = "text"
        /\ rq[r].llmLog.explain[1].index = 2

\* an element with role "user" or "assistant" and a non-empty content
ForwardableEntry(e) ==
    /\ e.t = "object"
    /\ e.role \in {Word("user"), Word("assistant")}
    /\ e.content.t = "string"
    /\ e.content.s # <<>>

\* "user" or "assistant", however the provider's format spells it
RoleClass(role) ==
    IF role \in {Word("user"), Word("User")} THEN "user"
    ELSE IF role \in {Word("assistant"), Word("Assistant")} THEN "assistant"
    ELSE "other"

C29_ErrorAndContentExclusive ==
    ~(explainer.error # "null" /\ explainer.showContent)

\* the assistant messages appended for send k
AnswersTo(k) ==
    Cardinality({n \in 1..Len(tutorPage.messages) :
                    /\ tutorPage.messages[n].role = "assistant"
                    /\ tutorPage.messages[n].of = k})

\* every send is followed, in the end, by one assistant message (the reply
\* or the "Oops!" message), and never by more than one
EverySendAnswered ==
    /\ [](\A k \in 1..MaxSends : AnswersTo(k) <= 1)
    /\ \A k \in 1..MaxSends : (tutorPage.sends >= k) ~> (AnswersTo(k) = 1)

\* C30: on the tutor page isLoading is true in every state in which a
\* request is in flight, however the sends (typed text, learning-path
\* buttons, related-concept badges) and the answers interleave; and every
\* send is followed, in the end, by exactly one appended assistant message.
C30_LoadingWhileInFlightAndAnswered ==
    /\ [](tutorPage.inFlight # {} => tutorPage.isLoading)
    /\ EverySendAnswered

====
